---- MODULE Spec2Model ----
(***************************************************************************)
(* A model of the crop-window engine of reframer_gui: CropCalculator       *)
(* (src/python/crop_calculator.py) and the keyframe pipeline of main()     *)
(* (src/python/main.py); and of what stands around it: the cropping and    *)
(* the output video of VideoProcessor (src/python/video_processor.py),     *)
(* ObjectDetector.detect (src/python/object_detector.py) and the watermark *)
(* (src/python/config.py, src/python/watermark.py).                        *)
(*                                                                         *)
(* Numbers.  Pixel fields are integers, as in the code (every field goes   *)
(* through int(), which truncates toward zero).  target_ratio and          *)
(* history_weight are rationals <<n, d>>; for the values drawn here the    *)
(* double-precision products the code truncates have the same integer part *)
(* as the exact quotient, except in the interpolation of main(), whose     *)
(* deviations are listed in InterpShort, and in _smooth_transition for the *)
(* history weights 3/10 and 7/10, whose deviations are listed in           *)
(* SmoothShort.  The attention point is a Python float; it is kept in      *)
(* fixed point, in units of 1/FP pixel.  Importance is kept in units of    *)
(* 1/400.  ObjectTracker is not part of the sources at hand: its update()  *)
(* is TrackerUpdate, a function of the frame and its detections.           *)
(***************************************************************************)
EXTENDS Integers, Sequences, FiniteSets, TLC

VARIABLES
    \* CropCalculator attributes (crop_calculator.py:42-72)
    target_ratio, history_weight, weighted_center, blend_saliency,
    face_detection, debug,
    prev_crop_window, prev_weighted_center,
    \* the calculate() calls made so far, and the last one
    ncalls, last,
    \* how many times the last call has been made again with the same
    \* arguments, counted up to 2
    repeats,
    \* main(): the video, the arguments, the position of the main thread
    total_frames, skip_frames, width, height, max_workers, pc, ki,
    \* main(): the worker pool's futures, the map the tasks fill, the windows
    futures, tracked_objects_by_frame, crop_windows, calc_log,
    \* crop_windows as phase 2 left it: the sparse keyframe results
    keyframe_results,
    \* one call of a function that keeps no state: its arguments, its return
    args, result,
    \* VideoProcessor: the loaded video, self.writer, what the writers were
    \* asked to do, the codecs a writer can be opened with, and the position
    \* of generate_output_video
    cap, writer, writer_log, codecs, gen,
    \* the watermark: config.config["watermark"], the renderer's
    \* self.watermark_config, and what apply_watermark last returned
    watermark, watermark_config, rendered

engine == <<target_ratio, history_weight, weighted_center, blend_saliency,
            face_detection, debug, prev_crop_window, prev_weighted_center>>

video == <<total_frames, skip_frames, width, height, max_workers>>

pipeline == <<video, pc, ki, futures, tracked_objects_by_frame, crop_windows,
              calc_log, keyframe_results>>

\* the parts outside the engine and main()'s keyframe phases
calls == <<args, result>>

output == <<cap, writer, writer_log, codecs, gen>>

marks == <<watermark, watermark_config, rendered>>

tools == <<calls, output, marks>>

vars == <<engine, ncalls, last, repeats, pipeline, tools>>

(***************************************************************************)
(* Bounds of the model.                                                    *)
(***************************************************************************)
MaxCalls == 2

MaxReuseCalls == 3

MaxWarmup == 2

MaxFrames == 6

MaxWorkers == 2

MaxVideoFrames == 3

MaxDetections == 3

(***************************************************************************)
(* Arithmetic.                                                             *)
(***************************************************************************)
FP == 10 * 1000

None == <<>>

Max(a, b) == IF a >= b THEN a ELSE b

Min(a, b) == IF a <= b THEN a ELSE b

\* int(n / d) for d > 0: Python's int() truncates toward zero.
Trunc(n, d) == IF n >= 0 THEN n \div d ELSE -((-n) \div d)

\* F(v), with v evaluated once and handed to F as a value
With(v, F(_)) == CHOOSE r \in { F(x) : x \in {v} } : TRUE

\* The integer square root, for np.sqrt of a scaled quantity: the largest r
\* in lo..hi with r * r <= n.
RECURSIVE SqrtIn(_, _, _)
SqrtIn(n, lo, hi) ==
    IF lo >= hi THEN lo
    ELSE With((lo + hi + 1) \div 2,
              LAMBDA mid : IF mid * mid <= n THEN SqrtIn(n, mid, hi)
                           ELSE SqrtIn(n, lo, mid - 1))

ISqrt(n) == With(n, LAMBDA m : SqrtIn(m, 0, Min(m, 46340)))

\* Python's round(n / d) for n >= 0, d > 0: to nearest, ties to even.
RoundHalfEven(n, d) ==
    LET q == n \div d
        r == n % d
    IN  IF 2 * r < d THEN q
        ELSE IF 2 * r > d THEN q + 1
        ELSE IF q % 2 = 0 THEN q ELSE q + 1

(***************************************************************************)
(* _get_center_crop, _validate_crop_window, _smooth_transition.            *)
(***************************************************************************)
\* a variant of WidthFor that rounds to nearest instead of truncating
WidthForRounded(h) == RoundHalfEven(h * target_ratio[1], target_ratio[2])

\* crop_width = int(crop_height * ratio); crop_height = int(crop_width / ratio)
WidthFor(h) == Trunc(h * target_ratio[1], target_ratio[2])

HeightFor(w) == Trunc(w * target_ratio[2], target_ratio[1])

GetCenterCrop(frame_width, frame_height) ==
    LET crop_width0 == WidthFor(frame_height)
        wider       == crop_width0 > frame_width
        crop_width  == IF wider THEN frame_width ELSE crop_width0
        crop_height == IF wider THEN HeightFor(frame_width) ELSE frame_height
        x == Trunc(frame_width - crop_width, 2)
        y == Trunc(frame_height - crop_height, 2)
    IN  <<x, y, crop_width, crop_height>>

\* a variant of _validate_crop_window without the boundary check of lines
\* 319-321
ValidateCropWindowNoBounds(crop_window, frame_width, frame_height) ==
    /\ Len(crop_window) = 4
    /\ crop_window[3] > 0
    /\ crop_window[4] > 0

ValidateCropWindow(crop_window, frame_width, frame_height) ==
    /\ Len(crop_window) = 4
    /\ crop_window[3] > 0
    /\ crop_window[4] > 0
    /\ crop_window[1] >= 0
    /\ crop_window[2] >= 0
    /\ crop_window[1] + crop_window[3] <= frame_width
    /\ crop_window[2] + crop_window[4] <= frame_height

\* a variant of Blend whose weight lies outside [0, 1]: it reflects prev
\* about curr instead of moving toward it
BlendOvershoot(prev, curr) == 2 * curr - prev

\* int(prev * history_weight + curr * (1 - history_weight))
Blend(prev, curr) ==
    Trunc(prev * history_weight[1]
            + curr * (history_weight[2] - history_weight[1]),
          history_weight[2])

\* crop_calculator.py:426-429: the (history_weight, prev, curr) for which the
\* double-precision value of prev * history_weight + curr * (1 -
\* history_weight) falls just below the integer it equals exactly, so that
\* int() gives one less (all such with fields up to 16 and the weights 0,
\* 1/10, 1/4, 3/10, 1/2, 7/10, 3/4, 1)
SmoothShort ==
    { <<3, 10, 1, 11>>, <<3, 10, 2, 12>>, <<3, 10, 3, 3>>, <<3, 10, 4, 14>>,
      <<3, 10, 6, 6>>, <<3, 10, 12, 12>>, <<7, 10, 11, 1>>, <<7, 10, 12, 2>> }

\* a variant of lines 426-429 that rounds to nearest instead of truncating
SmoothFieldRounded(prev, curr) ==
    (2 * (prev * history_weight[1]
            + curr * (history_weight[2] - history_weight[1]))
        + history_weight[2]) \div (2 * history_weight[2])

\* crop_calculator.py:426-429: one field of the smoothed window
SmoothField(prev, curr) ==
    Blend(prev, curr)
        - (IF <<history_weight[1], history_weight[2], prev, curr>> \in SmoothShort
           THEN 1 ELSE 0)

\* a variant of lines 419-431 that blends the position and keeps the size
SmoothTransitionPosition(prev_crop, current_crop) ==
    <<SmoothField(prev_crop[1], current_crop[1]),
      SmoothField(prev_crop[2], current_crop[2]),
      current_crop[3], current_crop[4]>>

SmoothTransition(prev_crop, current_crop) ==
    <<SmoothField(prev_crop[1], current_crop[1]),
      SmoothField(prev_crop[2], current_crop[2]),
      SmoothField(prev_crop[3], current_crop[3]),
      SmoothField(prev_crop[4], current_crop[4])>>

(***************************************************************************)
(* Objects handed to calculate().  An entry of the raw collection is a     *)
(* record: kind "obj" is a dict whose 'box' is a list of four numbers; the *)
(* other kinds are the malformed shapes the validator meets.               *)
(***************************************************************************)
Obj(box, class_name, confidence) ==
    [kind |-> "obj", box |-> box, class_name |-> class_name,
     confidence |-> confidence, scorable |-> TRUE, nan |-> FALSE,
     importance |-> 0]

Malformed(kind) ==
    [kind |-> kind, box |-> <<0, 0, 0, 0>>, class_name |-> "default",
     confidence |-> 0, scorable |-> TRUE, nan |-> FALSE, importance |-> 0]

\* objects = list(objects.values()) for a dict, [] for anything but a list
NormalizeObjects(objects) ==
    IF objects.coll \in {"list", "dict"} THEN objects.items ELSE <<>>

\* a variant of IsValidObject that does not look at the size of the box
IsValidObjectAnySize(obj) == obj.kind = "obj"

\* isinstance(obj, dict) and 'box' in obj, box a list of 4 numbers, w > 0, h > 0
IsValidObject(obj) ==
    /\ obj.kind = "obj"
    /\ obj.box[3] > 0
    /\ obj.box[4] > 0

ValidObjects(items) == SelectSeq(items, IsValidObject)

\* The faces appended to objects: those of four int or float values.
FaceObject(face) == Obj(face.box, "face", 9)

IsNumericFace(face) == face.numeric

RECURSIVE FaceObjects(_)
FaceObjects(faces) ==
    IF faces = <<>> THEN <<>>
    ELSE (IF IsNumericFace(Head(faces)) THEN <<FaceObject(Head(faces))>> ELSE <<>>)
             \o FaceObjects(Tail(faces))

(***************************************************************************)
(* _calculate_importance, in units of 1/400.                               *)
(***************************************************************************)
SizeWeight10 == 4

CenterWeight10 == 3

\* twice self.class_weights.get(class_name, self.class_weights['default'])
ClassWeight2(class_name) ==
    CASE class_name \in {"person", "face"} -> 80
      [] class_name \in {"dog", "cat"} -> 60
      [] class_name = "sports ball" -> 40
      [] class_name \in {"bicycle", "motorcycle", "car", "bird"} -> 20
      [] OTHER -> 1

\* twice _get_center_x(box), twice _get_center_y(box)
Center2X(box) == 2 * box[1] + box[3]

Center2Y(box) == 2 * box[2] + box[4]

CalculateImportance(obj, frame_width, frame_height) ==
    LET box        == obj.box
        size       == box[3] * box[4]
        frame_area == frame_width * frame_height
        size1000   == (size * 1000) \div frame_area
        dx         == frame_width - Center2X(box)
        dy         == frame_height - Center2Y(box)
        dist2      == dx * dx + dy * dy
        max2       == frame_width * frame_width + frame_height * frame_height
        ratio100   == ISqrt(((dist2 * 100) \div max2) * 100)
        inner1000  == Trunc(SizeWeight10 * 12 * size1000, 100)
                        + CenterWeight10 * (100 - ratio100)
    IN  Trunc(ClassWeight2(obj.class_name) * 3 * obj.confidence * inner1000, 100)

\* obj['importance'] = 0.1 when scoring the object raises
FallbackImportance == 40

Scored(obj, frame_width, frame_height) ==
    [obj EXCEPT !.importance =
        IF obj.nan THEN 0
        ELSE IF obj.scorable THEN CalculateImportance(obj, frame_width, frame_height)
        ELSE FallbackImportance]

RECURSIVE ScoreAll(_, _, _)
ScoreAll(objects, frame_width, frame_height) ==
    IF objects = <<>> THEN <<>>
    ELSE <<Scored(Head(objects), frame_width, frame_height)>>
             \o ScoreAll(Tail(objects), frame_width, frame_height)

\* sorted(objects, key=importance, reverse=True): stable, descending
RECURSIVE InsertDesc(_, _)
InsertDesc(obj, sorted) ==
    IF sorted = <<>> THEN <<obj>>
    ELSE IF Head(sorted).importance <= obj.importance THEN <<obj>> \o sorted
    ELSE <<Head(sorted)>> \o InsertDesc(obj, Tail(sorted))

RECURSIVE SortByImportance(_)
SortByImportance(objects) ==
    IF objects = <<>> THEN <<>>
    ELSE InsertDesc(Head(objects), SortByImportance(Tail(objects)))

(***************************************************************************)
(* The attention point (weighted_x, weighted_y), in units of 1/FP pixel.   *)
(* nan marks a point computed from a box coordinate that is NaN.           *)
(***************************************************************************)
Point(x, y) == [set |-> TRUE, nan |-> FALSE, x |-> x, y |-> y]

NaNPoint == [set |-> TRUE, nan |-> TRUE, x |-> 0, y |-> 0]

NoPoint == [set |-> FALSE, nan |-> FALSE, x |-> 0, y |-> 0]

NoSaliency == [kind |-> "none", x |-> 0, y |-> 0]

\* the centre of a box
BoxCenter(box) == Point(Center2X(box) * (FP \div 2), Center2Y(box) * (FP \div 2))

RECURSIVE WeightedSum2X(_)
WeightedSum2X(objects) ==
    IF objects = <<>> THEN 0
    ELSE Center2X(Head(objects).box) * Head(objects).importance
             + WeightedSum2X(Tail(objects))

RECURSIVE WeightedSum2Y(_)
WeightedSum2Y(objects) ==
    IF objects = <<>> THEN 0
    ELSE Center2Y(Head(objects).box) * Head(objects).importance
             + WeightedSum2Y(Tail(objects))

RECURSIVE TotalWeight(_)
TotalWeight(objects) ==
    IF objects = <<>> THEN 0
    ELSE Head(objects).importance + TotalWeight(Tail(objects))

\* sum2 / (2 * total) in units of 1/FP, for total > 0
Average(sum2, total) ==
    (sum2 \div total) * (FP \div 2) + ((sum2 % total) * (FP \div 2)) \div total

HasNaN(objects) == \E i \in 1..Len(objects) : objects[i].nan

\* crop_calculator.py:189-205, for a non-empty sorted list
\* a variant of lines 188-208 that takes the first object's centre whatever
\* weighted_center says
ObjectCenterFirst(sorted_objects) ==
    IF HasNaN(sorted_objects) THEN NaNPoint
    ELSE BoxCenter(sorted_objects[1].box)

ObjectCenter(sorted_objects) ==
    IF HasNaN(sorted_objects) THEN NaNPoint
    ELSE IF weighted_center /\ TotalWeight(sorted_objects) > 0
    THEN Point(Average(WeightedSum2X(sorted_objects), TotalWeight(sorted_objects)),
               Average(WeightedSum2Y(sorted_objects), TotalWeight(sorted_objects)))
    ELSE BoxCenter(sorted_objects[1].box)

FrameCenter(frame_width, frame_height) ==
    Point(frame_width * (FP \div 2), frame_height * (FP \div 2))

\* crop_calculator.py:215-226: blend_factor = 0.3 toward the saliency point
SaliencyBlend10 == 3

BlendSaliency(point, saliency_center) ==
    IF point.nan THEN point
    ELSE Point(Trunc(point.x * (10 - SaliencyBlend10)
                       + saliency_center.x * FP * SaliencyBlend10, 10),
               Trunc(point.y * (10 - SaliencyBlend10)
                       + saliency_center.y * FP * SaliencyBlend10, 10))

\* a variant of lines 228-236 that leaves the point of this call as it is
BlendHistoryDropped(prev, point) == point

\* crop_calculator.py:228-236: prev * history_weight + current * (1 - history_weight)
BlendHistory(prev, point) ==
    IF prev.nan \/ point.nan THEN NaNPoint
    ELSE Point(Blend(prev.x, point.x), Blend(prev.y, point.y))

\* crop_calculator.py:241-252
CropWidth(frame_width, frame_height) ==
    LET crop_width0 == WidthFor(frame_height)
    IN  Max(1, IF crop_width0 > frame_width THEN frame_width ELSE crop_width0)

CropHeight(frame_width, frame_height) ==
    Max(1, IF WidthFor(frame_height) > frame_width
           THEN HeightFor(frame_width) ELSE frame_height)

\* a variant of CurrentCrop that puts the window's corner, not its centre, on
\* the attention point
CurrentCropCorner(point, frame_width, frame_height) ==
    LET crop_width  == CropWidth(frame_width, frame_height)
        crop_height == CropHeight(frame_width, frame_height)
        x == Trunc(point.x, FP)
        y == Trunc(point.y, FP)
    IN  <<Max(0, Min(x, frame_width - crop_width)),
          Max(0, Min(y, frame_height - crop_height)),
          crop_width, crop_height>>

\* crop_calculator.py:254-263
CurrentCrop(point, frame_width, frame_height) ==
    LET crop_width  == CropWidth(frame_width, frame_height)
        crop_height == CropHeight(frame_width, frame_height)
        x == Trunc(point.x - crop_width * (FP \div 2), FP)
        y == Trunc(point.y - crop_height * (FP \div 2), FP)
    IN  <<Max(0, Min(x, frame_width - crop_width)),
          Max(0, Min(y, frame_height - crop_height)),
          crop_width, crop_height>>

(***************************************************************************)
(* calculate().  inp is the call: objects, frame_width, frame_height, the  *)
(* frame (with what the face and saliency extractors do on it) and fault,  *)
(* the guarded block of the call that raises ("none" for no block).        *)
(***************************************************************************)
\* crop_calculator.py:99-141: the validated objects, then the injected faces
Objects(inp) ==
    ValidObjects(NormalizeObjects(inp.objects))
        \o (IF inp.frame.present /\ face_detection /\ ~inp.frame.face_raises
            THEN FaceObjects(inp.frame.faces) ELSE <<>>)

\* crop_calculator.py:145-150
SaliencyCenter(inp, objects) ==
    IF inp.frame.present /\ Len(objects) < 3 /\ inp.frame.saliency.kind = "point"
    THEN inp.frame.saliency ELSE NoSaliency

\* a variant of line 220 that blends for a single object only
FewObjectsOne(sorted_objects) == Len(sorted_objects) <= 1

\* crop_calculator.py:220: with few objects the saliency point is blended in
FewObjects(sorted_objects) == Len(sorted_objects) <= 2

\* crop_calculator.py:188-226, for the scored and sorted objects: the point
\* of this call, before the history is applied
CurrentPoint(inp, sorted_objects, saliency_center) ==
    LET from_objects ==
            IF sorted_objects # <<>>
            THEN IF inp.fault = "center"
                 THEN FrameCenter(inp.frame_width, inp.frame_height)
                 ELSE ObjectCenter(sorted_objects)
            ELSE Point(saliency_center.x * FP, saliency_center.y * FP)
        blended ==
            IF /\ sorted_objects # <<>>
               /\ saliency_center.kind = "point"
               /\ blend_saliency
               /\ inp.fault # "blend"
               /\ FewObjects(sorted_objects)
            THEN BlendSaliency(from_objects, saliency_center)
            ELSE from_objects
    IN  blended

\* crop_calculator.py:188-236, for the scored and sorted objects
AttentionFrom(inp, sorted_objects, saliency_center) ==
    With(CurrentPoint(inp, sorted_objects, saliency_center),
         LAMBDA blended :
             IF prev_weighted_center.set /\ inp.fault # "history"
             THEN BlendHistory(prev_weighted_center, blended)
             ELSE blended)

\* crop_calculator.py:177-236
AttentionPoint(inp, objects, saliency_center) ==
    With(SortByImportance(ScoreAll(objects, inp.frame_width, inp.frame_height)),
         LAMBDA sorted_objects : AttentionFrom(inp, sorted_objects, saliency_center))

\* a variant of Handler that lets the exception through to the caller
HandlerReraise(frame_width, frame_height) == [ret |-> None, raised |-> TRUE]

\* crop_calculator.py:296-300: the handler of the outer try
Handler(frame_width, frame_height) ==
    [ret |-> GetCenterCrop(frame_width, frame_height), raised |-> FALSE]

\* a variant of lines 167-175 that stores the window it returns
NoSignalStored(inp) ==
    LET ret == IF /\ prev_crop_window # None
                  /\ Len(prev_crop_window) = 4
                  /\ prev_crop_window[3] > 0
                  /\ prev_crop_window[4] > 0
               THEN prev_crop_window
               ELSE GetCenterCrop(inp.frame_width, inp.frame_height)
    IN  [ret |-> ret, raised |-> FALSE, pcw |-> ret,
         pwc |-> prev_weighted_center,
         path |-> IF ret = prev_crop_window THEN "no_signal_prev"
                  ELSE "no_signal_center"]

\* crop_calculator.py:167-175
NoSignal(inp) ==
    IF /\ prev_crop_window # None
       /\ Len(prev_crop_window) = 4
       /\ prev_crop_window[3] > 0
       /\ prev_crop_window[4] > 0
    THEN [ret |-> prev_crop_window, raised |-> FALSE, pcw |-> prev_crop_window,
          pwc |-> prev_weighted_center, path |-> "no_signal_prev"]
    ELSE [ret |-> GetCenterCrop(inp.frame_width, inp.frame_height),
          raised |-> FALSE, pcw |-> prev_crop_window,
          pwc |-> prev_weighted_center, path |-> "no_signal_center"]

\* crop_calculator.py:263-270: the window around the attention point, smoothed
Smoothed(inp, point) ==
    With(CurrentCrop(point, inp.frame_width, inp.frame_height),
         LAMBDA current_crop :
             IF prev_crop_window # None /\ inp.fault # "smooth"
             THEN SmoothTransition(prev_crop_window, current_crop)
             ELSE current_crop)

\* crop_calculator.py:272-294, for the smoothed window
Validated(inp, point, smooth) ==
    LET h     == Handler(inp.frame_width, inp.frame_height)
        valid == ValidateCropWindow(smooth, inp.frame_width, inp.frame_height)
        current_crop ==
            IF valid THEN smooth
            ELSE GetCenterCrop(inp.frame_width, inp.frame_height)
    IN  IF point.nan
        THEN \* int(nan) raises after prev_weighted_center is stored
             [ret |-> h.ret, raised |-> h.raised, pcw |-> prev_crop_window,
              pwc |-> point, path |-> "exception"]
        ELSE IF debug /\ inp.fault = "log_calc"
        THEN \* the debug log raises after prev_crop_window is stored
             [ret |-> h.ret, raised |-> h.raised, pcw |-> current_crop,
              pwc |-> point, path |-> "exception"]
        ELSE [ret |-> current_crop, raised |-> FALSE, pcw |-> current_crop,
              pwc |-> point,
              path |-> IF valid THEN "computed" ELSE "computed_fallback"]

\* crop_calculator.py:239-294, for the attention point
ComputeAt(inp, point) ==
    With(Smoothed(inp, point), LAMBDA smooth : Validated(inp, point, smooth))

\* crop_calculator.py:177-294
Compute(inp, objects, saliency_center) ==
    With(AttentionPoint(inp, objects, saliency_center),
         LAMBDA point : ComputeAt(inp, point))

\* crop_calculator.py:145-300, for the validated objects and the faces
CalcObjects(inp, objects) ==
    LET saliency_center == SaliencyCenter(inp, objects)
        h == Handler(inp.frame_width, inp.frame_height)
    IN  IF inp.frame.present /\ objects # <<>> /\ debug
             /\ inp.fault = "log_inputs"
        THEN \* the debug log of the inputs raises: nothing is stored yet
             [ret |-> h.ret, raised |-> h.raised, pcw |-> prev_crop_window,
              pwc |-> prev_weighted_center, path |-> "exception"]
        ELSE IF objects = <<>> /\ saliency_center.kind = "none"
        THEN NoSignal(inp)
        ELSE Compute(inp, objects, saliency_center)

\* crop_calculator.py:80-300
Calc(inp) ==
    IF inp.frame_width <= 0 \/ inp.frame_height <= 0
    THEN [ret |-> GetCenterCrop(Max(1, inp.frame_width), Max(1, inp.frame_height)),
          raised |-> FALSE, pcw |-> prev_crop_window,
          pwc |-> prev_weighted_center, path |-> "invalid_dims"]
    ELSE With(Objects(inp), LAMBDA objects : CalcObjects(inp, objects))

(***************************************************************************)
(* The calls the model draws.                                              *)
(***************************************************************************)
ExampleBox == Obj(<<800, 400, 200, 300>>, "person", 9)

PersonA == Obj(<<0, 1, 4, 4>>, "person", 9)

DogB == Obj(<<10, 4, 4, 2>>, "dog", 5)

ChairC == Obj(<<13, 2, 3, 3>>, "chair", 9)

ZeroWidth == Obj(<<3, 3, 0, 4>>, "person", 9)

\* a valid box whose confidence is not a number: scoring it raises
BadConfidence == [Obj(<<6, 5, 2, 2>>, "person", 0) EXCEPT !.scorable = FALSE]

\* a box of four floats whose x is NaN: it passes the validator
NaNBox == [Obj(<<0, 0, 2, 2>>, "person", 9) EXCEPT !.nan = TRUE]

List(items) == [coll |-> "list", items |-> items]

\* collections of well-formed objects
ObjectLists ==
    { List(<<>>), List(<<PersonA>>), List(<<DogB>>), List(<<PersonA, DogB>>) }

\* a third object, malformed entries, and collections that are no list
OtherObjects ==
    { List(<<ChairC, PersonA, DogB>>),
      List(<<Malformed("nobox")>>), List(<<ZeroWidth, DogB>>),
      List(<<Malformed("notdict"), Malformed("boxlen"), Malformed("boxtype")>>),
      [coll |-> "dict", items |-> <<PersonA>>],
      [coll |-> "none", items |-> <<>>],
      [coll |-> "other", items |-> <<PersonA>>],
      List(<<BadConfidence>>), List(<<NaNBox>>) }

NoFrame ==
    [present |-> FALSE, faces |-> <<>>, face_raises |-> FALSE,
     saliency |-> NoSaliency]

Frame(faces, face_raises, saliency) ==
    [present |-> TRUE, faces |-> faces, face_raises |-> face_raises,
     saliency |-> saliency]

SaliencyAt(x, y) == [kind |-> "point", x |-> x, y |-> y]

SaliencyRaises == [kind |-> "raise", x |-> 0, y |-> 0]

Face(box, numeric) == [box |-> box, numeric |-> numeric]

FrameInputs ==
    { Frame(<<>>, FALSE, NoSaliency),
      Frame(<<>>, FALSE, SaliencyAt(12, 5)),
      Frame(<<>>, FALSE, SaliencyRaises),
      Frame(<<Face(<<5, 5, 3, 3>>, TRUE)>>, FALSE, SaliencyAt(12, 5)),
      Frame(<<Face(<<5, 5, 3, 3>>, FALSE)>>, FALSE, NoSaliency),
      Frame(<<Face(<<5, 5, 3, 3>>, TRUE)>>, TRUE, NoSaliency) }

Frames == { <<16, 10>>, <<8, 6>>, <<1920, 1080>>, <<1, 1>>, <<0, 0>> }

Faults == { "center", "blend", "history", "smooth", "log_inputs", "log_calc" }

Call(objects, size, frame, fault) ==
    [objects |-> objects, frame_width |-> size[1], frame_height |-> size[2],
     frame |-> frame, fault |-> fault]

Inputs ==
    { Call(o, s, NoFrame, "none") : o \in ObjectLists, s \in Frames }
    \cup { Call(o, <<16, 10>>, NoFrame, "none") : o \in OtherObjects }
    \cup { Call(List(<<ExampleBox>>), <<1920, 1080>>, NoFrame, "none") }
    \cup { Call(o, <<16, 10>>, f, "none") :
             o \in { List(<<>>), List(<<PersonA>>), List(<<PersonA, DogB>>),
                     List(<<ChairC, PersonA, DogB>>) },
             f \in FrameInputs }
    \cup { Call(List(<<PersonA>>), <<16, 10>>,
                Frame(<<>>, FALSE, SaliencyAt(12, 5)), x) : x \in Faults }

Config(ratio, hw, wc, bs, fd, dbg) ==
    [target_ratio |-> ratio, history_weight |-> hw, weighted_center |-> wc,
     blend_saliency |-> bs, face_detection |-> fd, debug |-> dbg]

Configs ==
    { Config(<<9, 16>>, <<1, 10>>, FALSE, FALSE, FALSE, FALSE),
      Config(<<9, 16>>, <<1, 2>>, TRUE, TRUE, TRUE, FALSE),
      Config(<<16, 9>>, <<1, 10>>, FALSE, TRUE, FALSE, TRUE),
      Config(<<1, 1>>, <<0, 1>>, TRUE, FALSE, TRUE, FALSE),
      Config(<<9, 16>>, <<1, 1>>, FALSE, FALSE, FALSE, FALSE) }

NoCall ==
    [inp |-> Call(List(<<>>), <<0, 0>>, NoFrame, "none"), ret |-> None,
     raised |-> FALSE, path |-> "none",
     before |-> [pcw |-> None, pwc |-> NoPoint]]

(***************************************************************************)
(* The engine: CropCalculator.__init__ and calculate().                    *)
(***************************************************************************)
\* crop_calculator.py:42-72
InitEngine(c) ==
    /\ target_ratio = c.target_ratio
    /\ history_weight = c.history_weight
    /\ weighted_center = c.weighted_center
    /\ blend_saliency = c.blend_saliency
    /\ face_detection = c.face_detection
    /\ debug = c.debug
    /\ prev_crop_window = None
    /\ prev_weighted_center = NoPoint

config == <<target_ratio, history_weight, weighted_center, blend_saliency,
            face_detection, debug>>

\* one call of calculate() on the engine
DoCalculate(inp) ==
    \E r \in {Calc(inp)} :
        /\ prev_crop_window' = r.pcw
        /\ prev_weighted_center' = r.pwc
        /\ last' = [inp |-> inp, ret |-> r.ret, raised |-> r.raised,
                    path |-> r.path,
                    before |-> [pcw |-> prev_crop_window,
                                pwc |-> prev_weighted_center]]
        /\ UNCHANGED config

Calculate ==
    /\ pc = "engine"
    /\ ncalls < MaxCalls
    /\ \E inp \in Inputs : DoCalculate(inp)
    /\ ncalls' = ncalls + 1
    /\ UNCHANGED <<tools, repeats, pipeline>>

\* no call of a stateless function is under way
NoCalls ==
    /\ args = [fn |-> "none"]
    /\ result = [fn |-> "none"]

\* video_processor.py:55-58: no video, no writer
NoOutput ==
    /\ cap = None
    /\ writer = None
    /\ writer_log = <<>>
    /\ codecs = {}
    /\ gen = [pc |-> "idle"]

\* config.py:35-48: the default settings; no frame rendered
DefaultWatermark == [enabled |-> FALSE, position |-> "bottom-right"]

NoMarks ==
    /\ watermark = DefaultWatermark
    /\ watermark_config = DefaultWatermark
    /\ rendered = [fn |-> "none"]

NoTools == NoCalls /\ NoOutput /\ NoMarks

\* the engine alone: no video is loaded
NoPipeline ==
    /\ total_frames = 0
    /\ skip_frames = 1
    /\ width = 0
    /\ height = 0
    /\ max_workers = 1
    /\ pc = "engine"
    /\ ki = 0
    /\ futures = <<>>
    /\ tracked_objects_by_frame = <<>>
    /\ crop_windows = <<>>
    /\ calc_log = <<>>
    /\ keyframe_results = <<>>

(***************************************************************************)
(* main(): phase 1 (detection and tracking on the worker pool), phase 2    *)
(* (calculate() per keyframe), phase 3 (interpolation and fill).           *)
(***************************************************************************)
\* main.py:154: keyframes = list(range(0, total_frames, skip_frames))
Keyframes == { i \in 0..(total_frames - 1) : i % skip_frames = 0 }

NumKeyframes == Cardinality(Keyframes)

\* the ki-th keyframe of the list, ki = 0, 1, ...
Keyframe(i) == i * skip_frames

\* what tracker.update() returns for a keyframe
TrackerOutputs == { List(<<>>), List(<<PersonA>>), List(<<DogB>>) }

\* a decoded keyframe, by the objects the detector finds in it
KeyframeContents == { [detected_objects |-> d] : d \in TrackerOutputs }

\* tracker.update(frame, detected_objects): work on the decoded frame and its
\* detections alone; the output is treated like the detections
TrackerUpdate(frame, detected_objects) == detected_objects

\* main.py:70-77: detector.detect, then tracker.update
ProcessKeyframe(frame) == TrackerUpdate(frame, frame.detected_objects)

\* main.py:162-180: one iteration of the submitting loop
Submit ==
    /\ pc = "submit"
    /\ ki < NumKeyframes
    /\ \E ret \in BOOLEAN, frame \in KeyframeContents :
          futures' = IF ret
                     THEN Append(futures, [frame_idx |-> Keyframe(ki),
                                           frame |-> frame,
                                           state |-> "queued"])
                     ELSE futures
    /\ ki' = ki + 1
    /\ UNCHANGED <<tools, engine, ncalls, last, repeats, video, pc, tracked_objects_by_frame,
                   crop_windows, calc_log,
                   keyframe_results>>

\* main.py:186-188: the loop is over; main goes on to wait for the futures
SubmitDone ==
    /\ pc = "submit"
    /\ ki = NumKeyframes
    /\ pc' = "wait"
    /\ ki' = 0
    /\ UNCHANGED <<tools, engine, ncalls, last, repeats, video, futures,
                   tracked_objects_by_frame, crop_windows, calc_log,
                   keyframe_results>>

Running == { f \in 1..Len(futures) : futures[f].state = "running" }

\* a worker thread takes the oldest queued task (ThreadPoolExecutor, main.py:157)
TaskStart(f) ==
    /\ futures[f].state = "queued"
    /\ \A g \in 1..(f - 1) : futures[g].state # "queued"
    /\ Cardinality(Running) < max_workers
    /\ futures' = [futures EXCEPT ![f].state = "running"]
    /\ UNCHANGED <<tools, engine, ncalls, last, repeats, video, pc, ki,
                   tracked_objects_by_frame, crop_windows, calc_log,
                   keyframe_results>>

\* a variant of process_keyframe that stores a fresh map holding its own
\* entry instead of setting its key in the shared one
TaskFinishReplace(f) ==
    /\ futures[f].state = "running"
    /\ tracked_objects_by_frame' =
           (futures[f].frame_idx :> ProcessKeyframe(futures[f].frame))
    /\ futures' = [futures EXCEPT ![f].state = "done"]
    /\ UNCHANGED <<tools, engine, ncalls, last, repeats, video, pc, ki, crop_windows, calc_log,
                   keyframe_results>>

\* main.py:66-80: process_keyframe stores the tracker's output and returns
TaskFinish(f) ==
    /\ futures[f].state = "running"
    /\ tracked_objects_by_frame' =
           (futures[f].frame_idx :> ProcessKeyframe(futures[f].frame))
               @@ tracked_objects_by_frame
    /\ futures' = [futures EXCEPT ![f].state = "done"]
    /\ UNCHANGED <<tools, engine, ncalls, last, repeats, video, pc, ki, crop_windows, calc_log,
                   keyframe_results>>

\* main.py:71-77: detector.detect or tracker.update raises in the task
TaskRaise(f) ==
    /\ futures[f].state = "running"
    /\ futures' = [futures EXCEPT ![f].state = "raised"]
    /\ UNCHANGED <<tools, engine, ncalls, last, repeats, video, pc, ki,
                   tracked_objects_by_frame, crop_windows, calc_log,
                   keyframe_results>>

Finished(f) == futures[f].state \in {"done", "raised"}

\* main.py:189-190: future.result() returns once the task is done
WaitNext ==
    /\ pc = "wait"
    /\ ki < Len(futures)
    /\ futures[ki + 1].state = "done"
    /\ ki' = ki + 1
    /\ UNCHANGED <<tools, engine, ncalls, last, repeats, video, pc, futures,
                   tracked_objects_by_frame, crop_windows, calc_log,
                   keyframe_results>>

\* main.py:190: future.result() re-raises the task's exception
WaitRaise ==
    /\ pc = "wait"
    /\ ki < Len(futures)
    /\ futures[ki + 1].state = "raised"
    /\ pc' = "unwind"
    /\ UNCHANGED <<tools, engine, ncalls, last, repeats, video, ki, futures,
                   tracked_objects_by_frame, crop_windows, calc_log,
                   keyframe_results>>

\* main.py:157: leaving the with block joins the pool; the exception ends main
Unwind ==
    /\ pc = "unwind"
    /\ \A f \in 1..Len(futures) : Finished(f)
    /\ pc' = "raised"
    /\ UNCHANGED <<tools, engine, ncalls, last, repeats, video, ki, futures,
                   tracked_objects_by_frame, crop_windows, calc_log,
                   keyframe_results>>

\* a variant of WaitDone that does not wait for the futures
WaitDoneEarly ==
    /\ pc = "wait"
    /\ pc' = "calc"
    /\ ki' = 0
    /\ crop_windows' = [i \in 0..(total_frames - 1) |-> None]
    /\ UNCHANGED <<tools, engine, ncalls, last, repeats, video, futures,
                   tracked_objects_by_frame, calc_log,
                   keyframe_results>>

\* main.py:157, 207: the with block is left; crop_windows = [None] * total_frames
WaitDone ==
    /\ pc = "wait"
    /\ ki = Len(futures)
    /\ \A f \in 1..Len(futures) : Finished(f)
    /\ pc' = "calc"
    /\ ki' = 0
    /\ crop_windows' = [i \in 0..(total_frames - 1) |-> None]
    /\ UNCHANGED <<tools, engine, ncalls, last, repeats, video, futures,
                   tracked_objects_by_frame, calc_log,
                   keyframe_results>>

\* the frame main reads for calculate(): faces and saliency as the extractors
\* find them
KeyframeFrames == { Frame(<<>>, FALSE, NoSaliency) }

\* main.py:210-225: one iteration of the phase 2 loop
CalcStep ==
    /\ pc = "calc"
    /\ ki < NumKeyframes
    /\ ki' = ki + 1
    /\ LET frame_idx == Keyframe(ki)
       IN  \/ /\ frame_idx \notin DOMAIN tracked_objects_by_frame
              /\ UNCHANGED <<tools, engine, ncalls, last, crop_windows, calc_log,
                   keyframe_results>>
           \/ /\ frame_idx \in DOMAIN tracked_objects_by_frame
              /\ \* not ret
                 UNCHANGED <<tools, engine, ncalls, last, crop_windows, calc_log,
                   keyframe_results>>
           \/ /\ frame_idx \in DOMAIN tracked_objects_by_frame
              /\ \E frame \in KeyframeFrames :
                    LET inp == Call(tracked_objects_by_frame[frame_idx],
                                    <<width, height>>, frame, "none")
                    IN  /\ DoCalculate(inp)
                        /\ crop_windows' =
                               [crop_windows EXCEPT ![frame_idx] = Calc(inp).ret]
              /\ calc_log' = Append(calc_log, frame_idx)
              /\ ncalls' = ncalls + 1
    /\ UNCHANGED <<tools, repeats, video, pc, futures, tracked_objects_by_frame,
                   keyframe_results>>

CalcDone ==
    /\ pc = "calc"
    /\ ki = NumKeyframes
    /\ pc' = "interp"
    /\ keyframe_results' = crop_windows
    /\ UNCHANGED <<tools, engine, ncalls, last, repeats, video, ki, futures,
                   tracked_objects_by_frame, crop_windows, calc_log>>

\* main.py:270-276: the (p, q, k, n) for which the double-precision value of
\* p * (1 - k/n) + q * (k/n) falls just below the integer it equals exactly, so
\* that int() gives one less (all such with fields up to 16 and n up to 6)
InterpShort ==
    { <<1, 7, 2, 3>>, <<1, 10, 2, 3>>, <<2, 14, 2, 3>>, <<6, 1, 2, 5>>,
      <<12, 2, 2, 5>>, <<1, 6, 3, 5>>, <<2, 12, 3, 5>>, <<5, 0, 4, 5>>,
      <<6, 1, 4, 5>>, <<10, 0, 4, 5>>, <<11, 1, 4, 5>>, <<12, 2, 4, 5>>,
      <<15, 0, 4, 5>>, <<15, 5, 4, 5>>, <<16, 1, 4, 5>>, <<1, 7, 4, 6>>,
      <<1, 10, 4, 6>>, <<2, 14, 4, 6>>, <<6, 0, 5, 6>>, <<9, 3, 5, 6>>,
      <<12, 0, 5, 6>>, <<13, 1, 5, 6>> }

\* a variant of InterpField that rounds to nearest instead of truncating
InterpFieldRounded(p, q, k, n) == RoundHalfEven(p * (n - k) + q * k, n)

\* int(p * (1 - alpha) + q * alpha) for alpha = k / n
InterpField(p, q, k, n) ==
    Trunc(p * (n - k) + q * k, n) - (IF <<p, q, k, n>> \in InterpShort THEN 1 ELSE 0)

InterpCrop(prev_crop, next_crop, k, n) ==
    <<InterpField(prev_crop[1], next_crop[1], k, n),
      InterpField(prev_crop[2], next_crop[2], k, n),
      InterpField(prev_crop[3], next_crop[3], k, n),
      InterpField(prev_crop[4], next_crop[4], k, n)>>

SetMax(S) == CHOOSE x \in S : \A y \in S : y <= x

SetMin(S) == CHOOSE x \in S : \A y \in S : x <= y

\* main.py:250-276: the body of the loop for frame i, on the list cw
InterpolateFrame(cw, i) ==
    LET next_idx == { j \in Keyframes : j > i }
        prev_idx == { j \in Keyframes : j < i }
    IN  IF cw[i] # None THEN cw
        ELSE IF next_idx = {} /\ prev_idx # {}
        THEN [cw EXCEPT ![i] = cw[SetMax(prev_idx)]]
        ELSE IF prev_idx = {} /\ next_idx # {}
        THEN [cw EXCEPT ![i] = cw[SetMin(next_idx)]]
        ELSE IF prev_idx # {} /\ next_idx # {}
        THEN LET prev_frame == SetMax(prev_idx)
                 next_frame == SetMin(next_idx)
             IN  IF cw[prev_frame] # None /\ cw[next_frame] # None
                 THEN [cw EXCEPT ![i] =
                          InterpCrop(cw[prev_frame], cw[next_frame],
                                     i - prev_frame, next_frame - prev_frame)]
                 ELSE cw
        ELSE cw

RECURSIVE InterpolateFrom(_, _)
InterpolateFrom(cw, i) ==
    IF i >= total_frames THEN cw
    ELSE InterpolateFrom(InterpolateFrame(cw, i), i + 1)

\* main.py:245: the keyframes that have a window
WithResult(cw) == { i \in Keyframes : cw[i] # None }

\* a variant of lines 244-276 without the test of line 247
InterpolatedAlways(cw) == InterpolateFrom(cw, 0)

\* main.py:244-276
Interpolated(cw) ==
    IF Cardinality(WithResult(cw)) > 1 THEN InterpolateFrom(cw, 0) ELSE cw

Interpolate ==
    /\ pc = "interp"
    /\ crop_windows' = Interpolated(crop_windows)
    /\ pc' = "fill"
    /\ UNCHANGED <<tools, engine, ncalls, last, repeats, video, ki, futures,
                   tracked_objects_by_frame, calc_log, keyframe_results>>

\* main.py:282-289
FillCrop ==
    LET crop_width0 == Trunc(height * target_ratio[1], target_ratio[2])
        wider       == crop_width0 > width
        crop_width  == IF wider THEN width ELSE crop_width0
        crop_height == IF wider
                       THEN Trunc(crop_width * target_ratio[2], target_ratio[1])
                       ELSE height
    IN  <<Trunc(width - crop_width, 2), Trunc(height - crop_height, 2),
          crop_width, crop_height>>

\* main.py:279-289
Filled(cw) == [i \in DOMAIN cw |-> IF cw[i] = None THEN FillCrop ELSE cw[i]]

Fill ==
    /\ pc = "fill"
    /\ crop_windows' = Filled(crop_windows)
    /\ pc' = "done"
    /\ UNCHANGED <<tools, engine, ncalls, last, repeats, video, ki, futures,
                   tracked_objects_by_frame, calc_log, keyframe_results>>

Skips == { 2, 3, 5 }

MainFrames == { <<16, 10>>, <<1, 1>> }

MainConfigs ==
    { Config(<<9, 16>>, <<1, 10>>, FALSE, FALSE, FALSE, FALSE),
      Config(<<1, 1>>, <<1, 2>>, TRUE, FALSE, FALSE, FALSE) }

\* main.py:86-140
MainInit ==
    /\ \E c \in MainConfigs : InitEngine(c)
    /\ ncalls = 0
    /\ last = NoCall
    /\ repeats = 0
    /\ total_frames \in 0..MaxFrames
    /\ skip_frames \in Skips
    /\ \E size \in MainFrames : width = size[1] /\ height = size[2]
    /\ max_workers \in 1..MaxWorkers
    /\ pc = "submit"
    /\ ki = 0
    /\ futures = <<>>
    /\ tracked_objects_by_frame = <<>>
    /\ crop_windows = <<>>
    /\ calc_log = <<>>
    /\ keyframe_results = <<>>
    /\ NoTools

MainNext ==
    \/ Submit
    \/ SubmitDone
    \/ \E f \in 1..Len(futures) : TaskStart(f)
    \/ \E f \in 1..Len(futures) : TaskFinish(f)
    \/ \E f \in 1..Len(futures) : TaskRaise(f)
    \/ WaitNext
    \/ WaitRaise
    \/ Unwind
    \/ WaitDone
    \/ CalcStep
    \/ CalcDone
    \/ Interpolate
    \/ Fill

MainSpec == MainInit /\ [][MainNext]_vars

Init ==
    /\ \E c \in Configs : InitEngine(c)
    /\ ncalls = 0
    /\ last = NoCall
    /\ repeats = 0
    /\ NoPipeline
    /\ NoTools

Next == Calculate

Spec == Init /\ [][Next]_vars

(***************************************************************************)
(* The engine fed the same call again and again: after at most MaxWarmup   *)
(* arbitrary calls, one object on one frame size is supplied every frame.  *)
(***************************************************************************)
SteadyInputs ==
    { Call(List(<<o>>), s, NoFrame, "none") :
        o \in { PersonA, DogB }, s \in { <<16, 10>>, <<8, 6>>, <<1, 1>> } }
    \cup { Call(List(<<ExampleBox>>), <<1920, 1080>>, NoFrame, "none") }

\* the calls made before: other objects, none, another frame size, a saliency
\* point, a box with a NaN
WarmupInputs ==
    { Call(o, sz, NoFrame, "none") :
        o \in ObjectLists, sz \in { <<16, 10>>, <<8, 6>> } }
    \cup { Call(List(<<NaNBox>>), <<16, 10>>, NoFrame, "none"),
           Call(List(<<>>), <<16, 10>>, Frame(<<>>, FALSE, SaliencyAt(12, 5)),
                "none"),
           Call(List(<<>>), <<1920, 1080>>, NoFrame, "none") }

Warmup ==
    /\ pc = "engine"
    /\ repeats = 0
    /\ ncalls < MaxWarmup
    /\ \E inp \in WarmupInputs : DoCalculate(inp)
    /\ ncalls' = ncalls + 1
    /\ UNCHANGED <<tools, repeats, pipeline>>

StartRepeat ==
    /\ pc = "engine"
    /\ repeats = 0
    /\ \E inp \in SteadyInputs : DoCalculate(inp)
    /\ repeats' = 1
    /\ UNCHANGED <<tools, ncalls, pipeline>>

Repeat ==
    /\ pc = "engine"
    /\ repeats >= 1
    /\ DoCalculate(last.inp)
    /\ repeats' = 2
    /\ UNCHANGED <<tools, ncalls, pipeline>>

SteadyNext == Warmup \/ StartRepeat \/ Repeat

\* further values of history_weight in [0, 1]
SteadyConfigs ==
    { Config(<<9, 16>>, <<1, 4>>, FALSE, FALSE, FALSE, FALSE),
      Config(<<16, 9>>, <<3, 4>>, TRUE, FALSE, FALSE, FALSE) }

SteadyInit ==
    /\ \E c \in Configs \cup SteadyConfigs : InitEngine(c)
    /\ ncalls = 0
    /\ last = NoCall
    /\ repeats = 0
    /\ NoPipeline
    /\ NoTools

\* calculate() is called on every frame: the next call always comes
SteadySpec == SteadyInit /\ [][SteadyNext]_vars /\ WF_vars(SteadyNext)

(***************************************************************************)
(* Properties of calculate() and _get_center_crop, on the engine (Spec).   *)
(***************************************************************************)
\* The validity of a window [x, y, w, h] in a frame, as the specification
\* defines it.
IsCropWindow(w, frame_width, frame_height) ==
    /\ Len(w) = 4
    /\ w[3] > 0
    /\ w[4] > 0
    /\ w[1] >= 0
    /\ w[2] >= 0
    /\ w[1] + w[3] <= frame_width
    /\ w[2] + w[4] <= frame_height

Called == ncalls > 0 \/ repeats > 0

PositiveDims == last.inp.frame_width > 0 /\ last.inp.frame_height > 0

\* C1: in every engine state reached by earlier calls, calculate() with
\* positive frame dimensions returns a window of 4 numbers with w > 0, h > 0,
\* x >= 0, y >= 0, x + w <= frame_width and y + h <= frame_height.
C1_ValidForPositiveDims ==
    (Called /\ PositiveDims)
        => /\ ~last.raised
           /\ IsCropWindow(last.ret, last.inp.frame_width, last.inp.frame_height)

\* C2: calculate() with a non-positive frame dimension does not raise and
\* returns a window of 4 numbers whose width and height are both positive.
C2_PositiveSizeForInvalidDims ==
    (Called /\ ~PositiveDims)
        => /\ ~last.raised
           /\ Len(last.ret) = 4
           /\ last.ret[3] > 0
           /\ last.ret[4] > 0

\* C3: whatever the object collection, the boxes, the extractors, the scoring
\* and the blending steps do, calculate() lets no exception reach the caller
\* and returns a window of 4 fields.
C3_NoExceptionEscapes ==
    Called => (~last.raised /\ Len(last.ret) = 4)

\* C3: a call in which an exception reached the outer handler has returned
C3_HandlerRan == Called /\ last.path = "exception" /\ Len(last.ret) = 4

\* w is the integer part of h * target_ratio, h that of w / target_ratio
IsWidthFor(w, h) ==
    /\ w * target_ratio[2] <= h * target_ratio[1]
    /\ h * target_ratio[1] < (w + 1) * target_ratio[2]

IsHeightFor(h, w) ==
    /\ h * target_ratio[1] <= w * target_ratio[2]
    /\ w * target_ratio[2] < (h + 1) * target_ratio[1]

\* x is the integer part of half the room left
IsCentered(x, room) == 2 * x <= room /\ room <= 2 * x + 1

\* the calls that return _get_center_crop(frame_width, frame_height)
ReturnsCenterCrop ==
    /\ Called
    /\ PositiveDims
    /\ last.path \in {"no_signal_center", "exception", "computed_fallback"}

\* C9 as stated: the centered crop has height frame_height and width
\* round(frame_height * target_ratio) when that fits, else width frame_width
\* and height round(frame_width / target_ratio), centered; 1920x1080 at 9/16
\* gives width 608, height 1080, x 656, y 0.
C9_CenterCropRounds ==
    ReturnsCenterCrop =>
        LET fw == last.inp.frame_width
            fh == last.inp.frame_height
            rw == RoundHalfEven(fh * target_ratio[1], target_ratio[2])
            rh == RoundHalfEven(fw * target_ratio[2], target_ratio[1])
            w  == last.ret
        IN  /\ rw <= fw => (w[3] = rw /\ w[4] = fh)
            /\ rw > fw => (w[3] = fw /\ w[4] = rh)
            /\ IsCentered(w[1], fw - w[3])
            /\ IsCentered(w[2], fh - w[4])
            /\ (fw = 1920 /\ fh = 1080 /\ target_ratio = <<9, 16>>)
                   => w = <<656, 0, 608, 1080>>

\* C9, amended: the centered crop has height frame_height and width
\* int(frame_height * target_ratio), truncated toward zero, when that fits,
\* else width frame_width and height int(frame_width / target_ratio); x and y
\* are the truncated halves of the room left; 1920x1080 at 9/16 gives width
\* 607, height 1080, x 656, y 0.
C9_CenterCropTruncates ==
    ReturnsCenterCrop =>
        LET fw == last.inp.frame_width
            fh == last.inp.frame_height
            w  == last.ret
        IN  /\ Len(w) = 4
            /\ \/ IsWidthFor(w[3], fh) /\ w[3] <= fw /\ w[4] = fh
               \/ /\ \E v \in (fw + 1)..(2 * fh + 1) : IsWidthFor(v, fh)
                  /\ w[3] = fw
                  /\ IsHeightFor(w[4], fw)
            /\ IsCentered(w[1], fw - w[3])
            /\ IsCentered(w[2], fh - w[4])
            /\ (fw = 1920 /\ fh = 1080 /\ target_ratio = <<9, 16>>)
                   => w = <<656, 0, 607, 1080>>

\* C9: the centered crop of the 1920x1080 frame has been returned
C9_ExampleReturned ==
    /\ ReturnsCenterCrop
    /\ last.inp.frame_width = 1920
    /\ last.inp.frame_height = 1080
    /\ target_ratio = <<9, 16>>
    /\ last.ret = <<656, 0, 607, 1080>>

\* the call was made on a fresh engine with one valid object as its only
\* signal: no face is added to it and no saliency point is blended into it
FreshSingleObject ==
    /\ Called
    /\ PositiveDims
    /\ last.before.pcw = None
    /\ ~last.before.pwc.set
    /\ last.inp.fault = "none"
    /\ Len(Objects(last.inp)) = 1
    /\ ~Objects(last.inp)[1].nan
    /\ ~(blend_saliency /\ SaliencyCenter(last.inp, Objects(last.inp)).kind = "point")
    /\ last.path # "exception"

\* x is the integer part of (c2 - size) / 2, clamped to 0..room
IsClampedAround(x, c2, size, room) ==
    /\ 0 <= x
    /\ x <= room
    /\ \/ c2 - size < 0 /\ x = 0
       \/ c2 - size >= 2 * room /\ x = room
       \/ 2 * x <= c2 - size /\ c2 - size <= 2 * x + 1

\* C10: on a fresh engine, calculate() with a single valid object takes the
\* centre of its box as the attention point and returns the target-ratio
\* rectangle centred on it, x clamped to [0, frame_width - crop_width] and y
\* to [0, frame_height - crop_height]; box [800, 400, 200, 300] on 1920x1080
\* gives the attention point (900, 550).
C10_FreshSingleObjectCentered ==
    FreshSingleObject =>
        LET fw  == last.inp.frame_width
            fh  == last.inp.frame_height
            box == Objects(last.inp)[1].box
            w   == last.ret
        IN  /\ prev_weighted_center.set
            /\ ~prev_weighted_center.nan
            /\ 2 * prev_weighted_center.x = (2 * box[1] + box[3]) * FP
            /\ 2 * prev_weighted_center.y = (2 * box[2] + box[4]) * FP
            /\ Len(w) = 4
            /\ \/ IsWidthFor(w[3], fh) /\ 1 <= w[3] /\ w[3] <= fw /\ w[4] = fh
               \/ IsWidthFor(0, fh) /\ w[3] = 1 /\ w[4] = fh
               \/ /\ \E v \in (fw + 1)..(2 * fh + 1) : IsWidthFor(v, fh)
                  /\ w[3] = fw
                  /\ IsHeightFor(w[4], fw)
            /\ IsClampedAround(w[1], 2 * box[1] + box[3], w[3], fw - w[3])
            /\ IsClampedAround(w[2], 2 * box[2] + box[4], w[4], fh - w[4])
            /\ box = <<800, 400, 200, 300>>
                   => /\ prev_weighted_center.x = 900 * FP
                      /\ prev_weighted_center.y = 550 * FP

\* C10: the example call has been made on a fresh engine
C10_ExampleReturned ==
    /\ FreshSingleObject
    /\ Objects(last.inp)[1].box = <<800, 400, 200, 300>>
    /\ target_ratio = <<9, 16>>
    /\ last.ret = <<596, 0, 607, 1080>>

(***************************************************************************)
(* Convergence under no motion (SteadySpec).                               *)
(***************************************************************************)
\* the next call with the same arguments returns the window this one returned
Settled == repeats >= 1 /\ Calc(last.inp).ret = last.ret

\* C7: when calculate() is called on every frame with the same single valid
\* object and the same frame dimensions, the returned windows are eventually
\* constant, for each history_weight drawn from [0, 1].
C7_Converges == <>[]Settled

\* C7: in the repeated phase the window has moved from the one before
C7_StillMoving ==
    /\ repeats = 2
    /\ last.path = "computed"
    /\ last.before.pcw # None
    /\ last.ret # last.before.pcw
    /\ history_weight[1] > 0

(***************************************************************************)
(* Properties of main()'s phases (MainSpec).                               *)
(***************************************************************************)
StrictlyIncreasing(s) == \A i \in 1..(Len(s) - 1) : s[i] < s[i + 1]

\* C8: main() calls calculate() only once every task of the pool has
\* completed, one call at a time, in strictly increasing keyframe order.
C8_CalculateAfterPoolInOrder ==
    /\ ncalls = Len(calc_log)
    /\ calc_log # <<>> =>
           /\ pc \in {"calc", "interp", "fill", "done"}
           /\ \A f \in 1..Len(futures) : futures[f].state = "done"
    /\ StrictlyIncreasing(calc_log)
    /\ \A i \in 1..Len(calc_log) : calc_log[i] \in Keyframes

\* C8: two calls were made after a pool of two workers ran two tasks
C8_TwoCallsAfterPool ==
    /\ Len(calc_log) >= 2
    /\ max_workers >= 2
    /\ Len(futures) >= 2

\* neighbouring keyframes a < b that both have a window from phase 2
Neighbours ==
    { ab \in Keyframes \X Keyframes :
        /\ ab[2] = ab[1] + skip_frames
        /\ keyframe_results[ab[1]] # None
        /\ keyframe_results[ab[2]] # None }

Interpolation == pc \in {"fill", "done"}

\* C4 as stated: between neighbouring keyframes a < b that both have windows,
\* the window at a + k equals round(W_a + (W_b - W_a) * k / (b - a)) in each
\* of the four fields.
C4_InterpolationRounds ==
    Interpolation =>
        \A ab \in Neighbours : \A k \in 1..(skip_frames - 1) : \A f \in 1..4 :
            crop_windows[ab[1] + k][f] =
                RoundHalfEven(keyframe_results[ab[1]][f] * (skip_frames - k)
                                + keyframe_results[ab[2]][f] * k, skip_frames)

\* C4, amended: the window at a + k is int(W_a * (1 - alpha) + W_b * alpha)
\* for alpha = k / (b - a) in each field: the value v truncated toward zero,
\* never rounded up; v is the integer part of the exact value, or one less
\* when the exact value is an integer the floating-point sum falls short of.
C4_InterpolationTruncates ==
    Interpolation =>
        \A ab \in Neighbours : \A k \in 1..(skip_frames - 1) : \A f \in 1..4 :
            LET v   == crop_windows[ab[1] + k][f]
                num == keyframe_results[ab[1]][f] * (skip_frames - k)
                         + keyframe_results[ab[2]][f] * k
            IN  /\ v * skip_frames <= num
                /\ num <= (v + 1) * skip_frames

\* C4: a frame was interpolated whose exact value has a fraction of at least
\* one half
C4_FractionAtLeastHalf ==
    /\ Interpolation
    /\ \E ab \in Neighbours : \E k \in 1..(skip_frames - 1) : \E f \in 1..4 :
           LET num == keyframe_results[ab[1]][f] * (skip_frames - k)
                        + keyframe_results[ab[2]][f] * k
           IN  /\ 2 * (num % skip_frames) >= skip_frames
               /\ crop_windows[ab[1] + k][f] = num \div skip_frames

\* C5: in the dense sequence every frame before the first keyframe with a
\* window holds that keyframe's window and every frame after the last
\* keyframe with a window holds that last window, for one or more such
\* keyframes.
C5_EdgeExtension ==
    (pc = "done" /\ WithResult(keyframe_results) # {}) =>
        LET first_kf == SetMin(WithResult(keyframe_results))
            last_kf  == SetMax(WithResult(keyframe_results))
        IN  \A i \in 0..(total_frames - 1) :
                /\ i < first_kf => crop_windows[i] = keyframe_results[first_kf]
                /\ i > last_kf => crop_windows[i] = keyframe_results[last_kf]

\* C6: after interpolation and fill the dense sequence has total_frames
\* entries, none absent, each a window of positive size inside the frame,
\* whatever subset of the keyframes produced a result.
C6_DenseSequence ==
    pc = "done" =>
        /\ DOMAIN crop_windows = 0..(total_frames - 1)
        /\ \A i \in DOMAIN crop_windows :
               /\ crop_windows[i] # None
               /\ IsCropWindow(crop_windows[i], width, height)

(***************************************************************************)
(* The input validator of calculate() (Spec).                              *)
(***************************************************************************)
\* an entry that is an object with a box of four numbers, width and height > 0
Conforming(entry) == entry.kind = "obj" /\ entry.box[3] > 0 /\ entry.box[4] > 0

\* the collection reduced to its conforming entries, as a list
Reduced(objects) ==
    List(IF objects.coll \in {"list", "dict"}
         THEN SelectSeq(objects.items, Conforming) ELSE <<>>)

HasDropped(objects) == Reduced(objects) # objects

\* C11: calculate() reduces its input to the entries that are objects with a
\* box of four numbers of positive width and height; a mapping is replaced by
\* its values, any other non-list by the empty list; nothing raises, and the
\* call returns the window and leaves the engine state that the same call on
\* the reduced list does.
C11_OnlyConformingEntries ==
    [][\A inp \in Inputs :
          last'.inp = inp =>
              LET r == Calc([inp EXCEPT !.objects = Reduced(inp.objects)])
              IN  /\ ValidObjects(NormalizeObjects(inp.objects))
                         = Reduced(inp.objects).items
                  /\ ~last'.raised
                  /\ last'.ret = r.ret
                  /\ prev_crop_window' = r.pcw
                  /\ prev_weighted_center' = r.pwc]_vars

\* C11: a call whose collection lost entries has computed a window from the
\* entry that was left
C11_EntriesDropped ==
    /\ Called
    /\ HasDropped(last.inp.objects)
    /\ Reduced(last.inp.objects).items # <<>>
    /\ last.path = "computed"

(***************************************************************************)
(* _validate_crop_window on any Python value.  A window handed to it is a  *)
(* value of some type; when it is a list, each item is a number (int or    *)
(* float, here an integer) or something else (None, a str).                *)
(***************************************************************************)
Num(n) == [num |-> TRUE, v |-> n]

NotNumber == [num |-> FALSE, v |-> 0]

PyValue(type, items) == [type |-> type, items |-> items]

PyList(items) == PyValue("list", items)

Values(items) == [i \in 1..Len(items) |-> items[i].v]

\* crop_calculator.py:304-321, the body of the try: "true", "false", or
\* "raise" (comparing a number with a frame dimension that is not one)
ValidateBody(crop_window, frame_width, frame_height) ==
    IF crop_window.type # "list" \/ Len(crop_window.items) # 4 THEN "false"
    ELSE IF \E i \in 1..4 : ~crop_window.items[i].num THEN "false"
    ELSE IF crop_window.items[3].v <= 0 \/ crop_window.items[4].v <= 0
         THEN "false"
    ELSE IF crop_window.items[1].v < 0 \/ crop_window.items[2].v < 0
         THEN "false"
    ELSE IF ~frame_width.num THEN "raise"
    ELSE IF crop_window.items[1].v + crop_window.items[3].v > frame_width.v
         THEN "false"
    ELSE IF ~frame_height.num THEN "raise"
    ELSE IF ValidateCropWindow(Values(crop_window.items), frame_width.v,
                               frame_height.v)
         THEN "true"
    ELSE "false"

\* crop_calculator.py:302-325: except Exception: return False
ValidateCropWindowRaw(crop_window, frame_width, frame_height) ==
    LET r == ValidateBody(crop_window, frame_width, frame_height)
    IN  [fn |-> "validate", ret |-> (r = "true"), raised |-> FALSE]

Coords == -1..2

Sizes == -1..3

NumericWindows ==
    { PyList(<<Num(x), Num(y), Num(w), Num(h)>>) :
        x \in Coords, y \in Coords, w \in Sizes, h \in Sizes }

MalformedWindows ==
    { PyValue("NoneType", <<>>), PyValue("str", <<>>), PyList(<<>>),
      PyList(<<Num(0), Num(0), Num(1)>>),
      PyList(<<Num(0), Num(0), Num(1), Num(1), Num(1)>>) }
    \cup { PyList([i \in 1..4 |-> IF i = k THEN NotNumber ELSE Num(1)]) :
             k \in 1..4 }

FrameDims == { <<Num(3), Num(2)>>, <<Num(2), Num(3)>>, <<Num(0), Num(0)>>,
               <<NotNumber, Num(3)>>, <<Num(3), NotNumber>> }

ValidateCall(crop_window, dims) ==
    [fn |-> "validate", crop_window |-> crop_window, frame_width |-> dims[1],
     frame_height |-> dims[2]]

\* the cases of test_crop_validation, and windows around small frames
ValidateArgs ==
    { ValidateCall(c, d) : c \in NumericWindows \cup MalformedWindows,
                           d \in FrameDims }
    \cup { ValidateCall(PyList(<<Num(10), Num(20), Num(w), Num(200)>>),
                        <<Num(640), Num(480)>>) : w \in { 100, -100, 1000 } }

\* no engine call and no video: only a stateless function is exercised
IdleEngine ==
    /\ InitEngine(Config(<<9, 16>>, <<1, 10>>, FALSE, FALSE, FALSE, FALSE))
    /\ ncalls = 0
    /\ last = NoCall
    /\ repeats = 0
    /\ NoPipeline

core == <<engine, ncalls, last, repeats, pipeline>>

Validate ==
    /\ args.fn = "validate"
    /\ result.fn = "none"
    /\ result' = ValidateCropWindowRaw(args.crop_window, args.frame_width,
                                       args.frame_height)
    /\ UNCHANGED <<args, core, output, marks>>

ValidateInit ==
    /\ IdleEngine
    /\ args \in ValidateArgs
    /\ result = [fn |-> "none"]
    /\ NoOutput
    /\ NoMarks

ValidateNext == Validate

ValidateSpec == ValidateInit /\ [][ValidateNext]_vars

\* the window is a list of exactly 4 numbers lying within the frame
FourNumbersInside(c, fw, fh) ==
    /\ c.type = "list"
    /\ Len(c.items) = 4
    /\ \A i \in 1..4 : c.items[i].num
    /\ fw.num
    /\ fh.num
    /\ c.items[3].v > 0
    /\ c.items[4].v > 0
    /\ c.items[1].v >= 0
    /\ c.items[2].v >= 0
    /\ c.items[1].v + c.items[3].v <= fw.v
    /\ c.items[2].v + c.items[4].v <= fh.v

NoneFrame == [type |-> "NoneType", shape |-> <<>>]

ShapelessFrame == [type |-> "list", shape |-> <<>>]

Array(h, w) == [type |-> "ndarray", shape |-> <<h, w>>]

\* a[start:stop] on an axis of n items, start >= 0: where the slice begins and
\* how many items it holds (a negative stop counts from the end)
Slice(start, stop, n) ==
    LET a == Min(start, n)
        b == IF stop < 0 THEN Max(0, stop + n) ELSE Min(stop, n)
    IN  <<a, Max(0, b - a)>>

\* video_processor.py:132-133: max(0, min(int(x), frame.shape[1] - 1))
ClampOffset(v, n) == Max(0, Min(v, n - 1))

\* a variant of the clamp of lines 134-135 without the floor of 1
ClampSizeUnfloored(v, n, offset) == Min(v, n - offset)

\* video_processor.py:134-135: max(1, min(int(w), frame.shape[1] - x))
ClampSize(v, n, offset) == Max(1, Min(v, n - offset))

\* video_processor.py:112-150; every exception of the body ends in the handler
\* of line 146, which returns None
ApplyCrop(frame, crop_window) ==
    IF frame.type = "NoneType" THEN None
    ELSE IF frame.type # "ndarray" \/ Len(frame.shape) < 2 THEN None
    ELSE IF crop_window.type # "list" \/ Len(crop_window.items) # 4 THEN None
    ELSE IF \E i \in 1..4 : ~crop_window.items[i].num THEN None
    ELSE LET x == ClampOffset(crop_window.items[1].v, frame.shape[2])
             y == ClampOffset(crop_window.items[2].v, frame.shape[1])
             w == ClampSize(crop_window.items[3].v, frame.shape[2], x)
             h == ClampSize(crop_window.items[4].v, frame.shape[1], y)
             rows == Slice(y, y + h, frame.shape[1])
             cols == Slice(x, x + w, frame.shape[2])
         IN  IF rows[2] * cols[2] = 0 THEN None
             ELSE <<cols[1], rows[1], cols[2], rows[2]>>

CropOffsets == { -1, 0, 1, 2, 3 }

CropSizes == { -1, 0, 1, 2, 4 }

CropFrames ==
    { Array(h, w) : h \in 1..3, w \in 1..3 }
    \cup { Array(0, 2), Array(2, 0), NoneFrame, ShapelessFrame }

ApplyCropCall(frame, crop_window) ==
    [fn |-> "apply_crop", frame |-> frame, crop_window |-> crop_window]

\* windows around small frames, and the three calls of
\* test_video_writer_safety
ApplyCropArgs ==
    { ApplyCropCall(f, PyList(<<Num(x), Num(y), Num(w), Num(h)>>)) :
        f \in CropFrames, x \in CropOffsets, y \in CropOffsets,
        w \in CropSizes, h \in CropSizes }
    \cup { ApplyCropCall(Array(2, 3), c) : c \in MalformedWindows }
    \cup { ApplyCropCall(f, PyList(<<Num(10), Num(20), Num(100), Num(200)>>)) :
             f \in { Array(480, 640), NoneFrame } }
    \cup { ApplyCropCall(Array(480, 640),
                         PyList(<<Num(1000), Num(2000), Num(-100),
                                  Num(-200)>>)) }

DoApplyCrop ==
    /\ args.fn = "apply_crop"
    /\ result.fn = "none"
    /\ result' = [fn |-> "apply_crop",
                  ret |-> ApplyCrop(args.frame, args.crop_window),
                  raised |-> FALSE]
    /\ UNCHANGED <<args, core, output, marks>>

ApplyCropInit ==
    /\ IdleEngine
    /\ args \in ApplyCropArgs
    /\ result = [fn |-> "none"]
    /\ NoOutput
    /\ NoMarks

ApplyCropNext == DoApplyCrop

ApplyCropSpec == ApplyCropInit /\ [][ApplyCropNext]_vars

IsNumericWindow(c) ==
    c.type = "list" /\ Len(c.items) = 4 /\ \A i \in 1..4 : c.items[i].num

PositiveFrame(f) == f.type = "ndarray" /\ f.shape[1] > 0 /\ f.shape[2] > 0

\* the window <<x, y, w, h>> of integers is a non-empty part of the frame
WindowInside(c, f) ==
    /\ c[1] >= 0
    /\ c[2] >= 0
    /\ c[3] >= 1
    /\ c[4] >= 1
    /\ c[1] + c[3] <= f.shape[2]
    /\ c[2] + c[4] <= f.shape[1]

NoneValue == PyValue("NoneType", <<>>)

\* video_processor.py:64-84: load_video on a file of n frames
Loaded(n, shape) == [nframes |-> n, shape |-> shape, pos |-> 0]

Codecs == { "mp4v", "XVID" }

\* video_processor.py:266-271: the first entry that is not None and has 4
\* items; 0 when there is none
FirstCropIndex(windows) ==
    LET ok == { i \in 1..Len(windows) :
                  /\ windows[i].type # "NoneType"
                  /\ Len(windows[i].items) = 4 }
    IN  IF ok = {} THEN 0 ELSE CHOOSE i \in ok : \A j \in ok : i <= j

\* cv2.VideoWriter(output_path, fourcc, fps, size)
VideoWriter(codec, size) ==
    [codec |-> codec, size |-> size, opened |-> codec \in codecs]

\* a variant of isOpened() that takes every writer for an open one
IsOpenedAssumed(w) == TRUE

\* video_processor.py:294, 304: self.writer.isOpened()
IsOpened(w) == w.opened

OpenEvent(w) == [op |-> "open", codec |-> w.codec, opened |-> w.opened]

WriteEvent(i, size) == [op |-> "write", frame |-> i, size |-> size]

ReleaseEvent == [op |-> "release"]

Started(windows) ==
    [pc |-> "loop", crop_windows |-> windows, crop_size |-> <<0, 0>>,
     frames_written |-> 0, frames_skipped |-> 0, error |-> "none"]

\* video_processor.py:393-403 after the events in log: release the writer w
\* if there is one, and raise
Raise(g, error, w, log) ==
    /\ gen' = [g EXCEPT !.pc = "raised", !.error = error]
    /\ writer' = None
    /\ writer_log' = IF w # None THEN Append(log, ReleaseEvent) ELSE log

\* a variant of the handler that leaves self.writer as it is
RaiseKeepWriter(g, error, w, log) ==
    /\ gen' = [g EXCEPT !.pc = "raised", !.error = error]
    /\ writer' = w
    /\ writer_log' = log

\* video_processor.py:245-305: the checks, then the writer with mp4v and,
\* failing that, with XVID
GenOpen(windows) ==
    /\ gen.pc = "idle"
    /\ LET g == Started(windows)
           first == IF windows.type = "list"
                    THEN FirstCropIndex(windows.items) ELSE 0
       IN  IF cap = None
           THEN Raise(g, "ValueError: No video loaded", writer, writer_log)
                /\ UNCHANGED cap
           ELSE IF windows.type # "list" \/ windows.items = <<>>
           THEN Raise(g, "ValueError: No crop windows provided", writer,
                      writer_log)
                /\ UNCHANGED cap
           ELSE IF first = 0
           THEN Raise(g, "ValueError: No valid crop windows found", writer,
                      writer_log)
                /\ cap' = [cap EXCEPT !.pos = 0]
           ELSE LET size == <<windows.items[first].items[3].v,
                              windows.items[first].items[4].v>>
                    w1 == VideoWriter("mp4v", size)
                    w2 == VideoWriter("XVID", size)
                    sized == [g EXCEPT !.crop_size = size]
                IN  /\ cap' = [cap EXCEPT !.pos = 0]
                    /\ IF size[1] <= 0 \/ size[2] <= 0
                       THEN Raise(g, "ValueError: Invalid crop dimensions",
                                  writer, writer_log)
                       ELSE IF IsOpened(w1)
                       THEN /\ writer' = w1
                            /\ writer_log' = Append(writer_log, OpenEvent(w1))
                            /\ gen' = sized
                       ELSE IF IsOpened(w2)
                       THEN /\ writer' = w2
                            /\ writer_log' =
                                   writer_log \o <<OpenEvent(w1), OpenEvent(w2)>>
                            /\ gen' = sized
                       ELSE Raise(sized,
                                  "ValueError: Failed to create video writer",
                                  w2,
                                  writer_log \o <<OpenEvent(w1), OpenEvent(w2)>>)
    /\ UNCHANGED <<codecs, core, calls, marks>>

\* video_processor.py:316-365 for frame i (0-based), read from the video:
\* "skip", or the size of the frame to write
FrameOutcome(i) ==
    LET crop_window == gen.crop_windows.items[i + 1]
        frame == Array(cap.shape[1], cap.shape[2])
        cropped == ApplyCrop(frame, crop_window)
    IN  IF crop_window.type = "NoneType" THEN "skip"
        ELSE IF cropped = None THEN "skip"
        ELSE IF <<cropped[3], cropped[4]>> # gen.crop_size
        THEN \* cv2.resize(cropped_frame, (crop_width, crop_height))
             gen.crop_size
        ELSE <<cropped[3], cropped[4]>>

\* video_processor.py:311-376: one iteration of the loop over
\* frame_generator(), which reads the next frame
GenFrame ==
    /\ gen.pc = "loop"
    /\ cap.pos < cap.nframes
    /\ cap.pos < Len(gen.crop_windows.items)
    /\ LET i == cap.pos
           out == FrameOutcome(i)
       IN  /\ cap' = [cap EXCEPT !.pos = i + 1]
           /\ IF out = "skip"
              THEN /\ gen' = [gen EXCEPT !.frames_skipped = @ + 1]
                   /\ UNCHANGED writer_log
              ELSE /\ gen' = [gen EXCEPT !.frames_written = @ + 1]
                   /\ writer_log' = Append(writer_log, WriteEvent(i, out))
    /\ UNCHANGED <<writer, codecs, core, calls, marks>>

\* a variant of the end of the loop that leaves the writer open
GenFinishNoRelease ==
    /\ gen.pc = "loop"
    /\ cap.pos >= cap.nframes \/ cap.pos >= Len(gen.crop_windows.items)
    /\ gen' = [gen EXCEPT !.pc = "done"]
    /\ UNCHANGED <<writer, writer_log, cap, codecs, core, calls, marks>>

\* video_processor.py:378-391: the generator is exhausted or the windows have
\* run out; release the writer, then the audio steps, which never raise
GenFinish ==
    /\ gen.pc = "loop"
    /\ cap.pos >= cap.nframes \/ cap.pos >= Len(gen.crop_windows.items)
    /\ gen' = [gen EXCEPT !.pc = "done"]
    /\ writer' = None
    /\ writer_log' = IF writer # None THEN Append(writer_log, ReleaseEvent)
                     ELSE writer_log
    /\ UNCHANGED <<cap, codecs, core, calls, marks>>

\* windows on a frame 3 wide and 2 high: two of size 2x2 inside it, one of
\* size 1x1, one at negative coordinates, one outside the frame, and None
InsideA == PyList(<<Num(0), Num(0), Num(2), Num(2)>>)

InsideB == PyList(<<Num(1), Num(0), Num(2), Num(2)>>)

SmallC == PyList(<<Num(0), Num(0), Num(1), Num(1)>>)

NegativeXY == PyList(<<Num(-1), Num(-1), Num(2), Num(2)>>)

OutOfBounds == PyList(<<Num(4), Num(4), Num(2), Num(2)>>)

WindowPool == { InsideA, InsideB, SmallC, NegativeXY, OutOfBounds, NoneValue }

RECURSIVE Lists(_, _)
Lists(pool, n) ==
    IF n = 0 THEN { <<>> }
    ELSE LET shorter == Lists(pool, n - 1)
         IN  shorter \cup { Append(l, e) : l \in shorter, e \in pool }

CropWindowLists ==
    { PyList(l) : l \in Lists(WindowPool, MaxVideoFrames) }
    \cup { NoneValue,
           PyList(<<PyList(<<Num(0), Num(0), Num(0), Num(2)>>)>>),
           PyList(<<PyList(<<Num(0), Num(0), Num(2)>>)>>),
           PyList(<<PyList(<<Num(0), Num(0), Num(2)>>), InsideA>>) }

GenInit ==
    /\ IdleEngine
    /\ NoCalls
    /\ NoMarks
    /\ cap \in { None } \cup { Loaded(n, <<2, 3>>) : n \in 0..MaxVideoFrames }
    /\ codecs \in SUBSET Codecs
    /\ writer = None
    /\ writer_log = <<>>
    /\ gen = [pc |-> "idle"]

GenNext ==
    \/ \E windows \in CropWindowLists : GenOpen(windows)
    \/ GenFrame
    \/ GenFinish

GenSpec == GenInit /\ [][GenNext]_vars

(***************************************************************************)
(* Properties of generate_output_video (GenSpec).                          *)
(***************************************************************************)
Returned == gen.pc \in { "done", "raised" }

Writes == SelectSeq(writer_log, LAMBDA e : e.op = "write")

Releases == SelectSeq(writer_log, LAMBDA e : e.op = "release")

GivenWindows == gen.crop_windows.items

\* the checks of lines 248-280 pass: a video is loaded and some window has 4
\* items and a positive size
ChecksPass ==
    /\ cap # None
    /\ gen.crop_windows.type = "list"
    /\ FirstCropIndex(GivenWindows) # 0
    /\ gen.crop_size[1] > 0
    /\ gen.crop_size[2] > 0

IsValidWindow(c) ==
    /\ IsNumericWindow(c)
    /\ WindowInside(Values(c.items), Array(cap.shape[1], cap.shape[2]))

\* N readable frames, N windows, all valid and of one size, N >= 1
ValidEqualWindows ==
    /\ cap # None
    /\ gen.crop_windows.type = "list"
    /\ Len(GivenWindows) = cap.nframes
    /\ cap.nframes >= 1
    /\ \A i \in 1..Len(GivenWindows) :
          /\ IsValidWindow(GivenWindows[i])
          /\ GivenWindows[i].items[3] = GivenWindows[1].items[3]
          /\ GivenWindows[i].items[4] = GivenWindows[1].items[4]

\* C14: given N readable frames and N crop windows, all valid and of equal
\* size, and a writer that opens, generate_output_video writes exactly N
\* frames, one per input frame in frame order, and releases the writer
\* exactly once, after the last write.
C14_WritesEveryFrameThenReleases ==
    (Returned /\ ValidEqualWindows /\ codecs # {}) =>
        /\ gen.pc = "done"
        /\ Len(Writes) = cap.nframes
        /\ \A i \in 1..Len(Writes) :
              /\ Writes[i].frame = i - 1
              /\ Writes[i].size = <<GivenWindows[i].items[3].v,
                                    GivenWindows[i].items[4].v>>
        /\ Len(Releases) = 1
        /\ writer_log[Len(writer_log)] = ReleaseEvent
        /\ writer = None

\* two frames have gone through two windows of one size
C14_TwoFramesWritten ==
    /\ gen.pc = "done"
    /\ cap # None
    /\ cap.nframes = 2
    /\ gen.crop_windows = PyList(<<InsideA, InsideB>>)
    /\ gen.frames_written = 2

\* C15: if the output writer cannot be opened, generate_output_video raises
\* ValueError, writes no frame, and leaves the processor with no open
\* writer.
C15_WriterFailureRaises ==
    (gen.pc # "idle" /\ ChecksPass /\ codecs = {}) =>
        /\ gen.pc = "raised"
        /\ gen.error = "ValueError: Failed to create video writer"
        /\ Writes = <<>>
        /\ writer = None

\* both codecs have been tried and the call has raised
C15_BothCodecsFailed ==
    /\ gen.pc = "raised"
    /\ codecs = {}
    /\ gen.error = "ValueError: Failed to create video writer"
    /\ Len(writer_log) = 3

\* every window given has a negative coordinate or reaches outside the frame
AllWindowsInvalid ==
    /\ cap # None
    /\ cap.nframes >= 1
    /\ codecs # {}
    /\ gen.crop_windows.type = "list"
    /\ GivenWindows # <<>>
    /\ \A i \in 1..Len(GivenWindows) :
          /\ IsNumericWindow(GivenWindows[i])
          /\ GivenWindows[i].items[3].v > 0
          /\ GivenWindows[i].items[4].v > 0
          /\ ~IsValidWindow(GivenWindows[i])

\* C16: when the supplied windows have negative coordinates or lie outside
\* the frame, generate_output_video raises ValueError and writes no frame.
C16_InvalidWindowsRejected ==
    (Returned /\ AllWindowsInvalid) => (gen.pc = "raised" /\ Writes = <<>>)

(***************************************************************************)
(* ObjectDetector.detect (src/python/object_detector.py).  The model's     *)
(* output for a frame is a list of rows; a row's confidence is kept in     *)
(* hundredths.  A detection is the row's place in that list and its        *)
(* confidence.                                                             *)
(***************************************************************************)
Detection(row, conf) == [row |-> row, confidence |-> conf]

\* object_detector.py:223-254: the rows at or above the threshold, in the
\* order of the model's output (a row is skipped if conf < threshold)
RECURSIVE Collect(_, _, _)
Collect(rows, k, confidence_threshold) ==
    IF k > Len(rows) THEN <<>>
    ELSE LET rest == Collect(rows, k + 1, confidence_threshold)
         IN  IF rows[k] < confidence_threshold THEN rest
             ELSE <<Detection(k, rows[k])>> \o rest

\* d put into a list sorted by confidence, descending, after the entries of
\* equal confidence
InsertByConfidence(d, sorted) ==
    LET before == { i \in 1..Len(sorted) :
                      sorted[i].confidence >= d.confidence }
        n == Cardinality(before)
    IN  SubSeq(sorted, 1, n) \o <<d>> \o SubSeq(sorted, n + 1, Len(sorted))

\* object_detector.py:257: detections.sort(key=confidence, reverse=True),
\* a stable sort
RECURSIVE SortByConfidence(_)
SortByConfidence(dets) ==
    IF dets = <<>> THEN <<>>
    ELSE InsertByConfidence(dets[Len(dets)],
                            SortByConfidence(SubSeq(dets, 1, Len(dets) - 1)))

\* object_detector.py:260-261: if top_n > 0: detections[:top_n]
TopN(dets, top_n) ==
    IF top_n > 0 THEN SubSeq(dets, 1, Min(top_n, Len(dets))) ELSE dets

\* object_detector.py:180-306: no model, an empty frame or a failing
\* inference give []
Detect(a) ==
    IF ~a.model \/ ~a.frame \/ a.inference_raises THEN <<>>
    ELSE TopN(SortByConfidence(Collect(a.rows, 1, a.confidence_threshold)),
              a.top_n)

Confidences == { 30, 50, 60, 80, 90 }

TopNs == { 0, 1, 2, 10 }

DetectCall(rows, top_n, model, frame, raises) ==
    [fn |-> "detect", rows |-> rows, top_n |-> top_n,
     confidence_threshold |-> 50, model |-> model, frame |-> frame,
     inference_raises |-> raises]

\* the model's rows with the threshold 0.5 of the tests
DetectArgs ==
    { DetectCall(rows, n, TRUE, TRUE, FALSE) :
        rows \in Lists(Confidences, MaxDetections), n \in TopNs }
    \cup { DetectCall(<<90, 80, 70, 60>>, 2, TRUE, TRUE, FALSE),
           DetectCall(<<90>>, 1, FALSE, TRUE, FALSE),
           DetectCall(<<90>>, 1, TRUE, FALSE, FALSE),
           DetectCall(<<90>>, 1, TRUE, TRUE, TRUE) }

DoDetect ==
    /\ args.fn = "detect"
    /\ result.fn = "none"
    /\ result' = [fn |-> "detect", ret |-> Detect(args), raised |-> FALSE]
    /\ UNCHANGED <<args, core, output, marks>>

DetectInit ==
    /\ IdleEngine
    /\ args \in DetectArgs
    /\ result = [fn |-> "none"]
    /\ NoOutput
    /\ NoMarks

DetectNext == DoDetect

DetectSpec == DetectInit /\ [][DetectNext]_vars

\* the rows of the output at or above the threshold
Eligible == { k \in 1..Len(args.rows) : args.rows[k] >= args.confidence_threshold }

\* C17: detect(frame, top_n) returns only detections whose confidence is >=
\* confidence_threshold, ordered by confidence descending, and at most top_n
\* of them, the top_n highest-confidence ones, for every top_n.
C17_AtMostTopN ==
    (result.fn = "detect" /\ args.model /\ args.frame
        /\ ~args.inference_raises) =>
        LET ret == result.ret
        IN  /\ \A i \in 1..Len(ret) : ret[i].row \in Eligible
            /\ \A i, j \in 1..Len(ret) :
                  i < j => ret[i].confidence >= ret[j].confidence
            /\ Len(ret) <= args.top_n
            /\ Len(ret) = Min(args.top_n, Cardinality(Eligible))
            /\ \A k \in Eligible :
                  (\A i \in 1..Len(ret) : ret[i].row # k) =>
                      \A i \in 1..Len(ret) : ret[i].confidence >= args.rows[k]

(***************************************************************************)
(* The watermark (src/python/config.py, src/python/watermark.py).  The     *)
(* configuration is reduced to the enabled flag and the position; the      *)
(* renderer keeps the dictionary get_watermark_config() built for it when  *)
(* it last asked.                                                          *)
(***************************************************************************)
Positions ==
    { "top-left", "top-right", "bottom-left", "bottom-right", "center" }

WatermarkSettings == [enabled : BOOLEAN, position : Positions]

\* config.py:104-106, through set() (lines 74-89)
SetWatermarkEnabled(enabled) ==
    /\ watermark' = [watermark EXCEPT !.enabled = enabled]
    /\ UNCHANGED <<watermark_config, rendered, core, calls, output>>

\* config.py:112-117
SetWatermarkPosition(position) ==
    /\ watermark' = [watermark EXCEPT !.position = position]
    /\ UNCHANGED <<watermark_config, rendered, core, calls, output>>

\* watermark.py:11-13 update_config, and is_enabled (lines 107-110), which
\* calls it
UpdateConfig ==
    /\ watermark_config' = watermark
    /\ UNCHANGED <<watermark, rendered, core, calls, output>>

\* watermark.py:76-105: the flag tested is the stored one; the settings are
\* read again only after the test
ApplyWatermark ==
    /\ IF ~watermark_config.enabled
       THEN /\ rendered' = [fn |-> "apply_watermark", out |-> "frame",
                            position |-> "none", enabled |-> watermark.enabled]
            /\ UNCHANGED watermark_config
       ELSE /\ watermark_config' = watermark
            /\ rendered' = [fn |-> "apply_watermark", out |-> "watermarked",
                            position |-> watermark.position,
                            enabled |-> watermark.enabled]
    /\ UNCHANGED <<watermark, core, calls, output>>

\* config.py:9-15 and watermark.py:8-9, 113: the settings as the file has
\* them, and the renderer made when the module is imported
WatermarkInit ==
    /\ IdleEngine
    /\ NoCalls
    /\ NoOutput
    /\ watermark \in WatermarkSettings
    /\ watermark_config = watermark
    /\ rendered = [fn |-> "none"]

WatermarkNext ==
    \/ \E enabled \in BOOLEAN : SetWatermarkEnabled(enabled)
    \/ \E position \in Positions : SetWatermarkPosition(position)
    \/ UpdateConfig
    \/ ApplyWatermark

WatermarkSpec == WatermarkInit /\ [][WatermarkNext]_vars

\* C18: apply_watermark follows the configuration's enabled flag as it is
\* at the time of the call, whatever the flag was when the renderer was
\* created or last refreshed: the frame comes back watermarked if the flag
\* is on, unchanged if it is off.
C18_FollowsFlagAtCall ==
    rendered.fn = "apply_watermark" =>
        (rendered.out = "watermarked" <=> rendered.enabled)

(***************************************************************************)
(* Frames with and without a signal, on frames of several sizes: the       *)
(* engine is called up to MaxReuseCalls times with one person or nothing.  *)
(***************************************************************************)
ReuseInputs ==
    { Call(List(o), s, NoFrame, "none") :
        o \in { <<PersonA>>, <<>> }, s \in { <<16, 10>>, <<8, 6>>, <<1, 1>> } }

ReuseCalculate ==
    /\ pc = "engine"
    /\ ncalls < MaxReuseCalls
    /\ \E inp \in ReuseInputs : DoCalculate(inp)
    /\ ncalls' = ncalls + 1
    /\ UNCHANGED <<tools, repeats, pipeline>>

ReuseNext == ReuseCalculate

ReuseSpec == Init /\ [][ReuseNext]_vars

\* the last call found no validated object and no saliency point
NoSignalCall == Called /\ last.path \in { "no_signal_prev", "no_signal_center" }

\* C19: when the validated object list is empty and there is no saliency
\* point, calculate() returns the stored previous crop window unchanged if
\* one exists, and the centered crop of the frame otherwise.
C19_NoSignalReusesStoredWindow ==
    NoSignalCall =>
        /\ prev_crop_window = last.before.pcw
        /\ IF last.before.pcw # None THEN last.ret = last.before.pcw
           ELSE last.ret = GetCenterCrop(last.inp.frame_width,
                                         last.inp.frame_height)

(***************************************************************************)
(* The attention point: calls with one to three objects, some of them of   *)
(* confidence 0 and so of importance 0, with and without a saliency point. *)
(***************************************************************************)
ZeroPerson == Obj(<<6, 5, 2, 2>>, "person", 0)

ZeroDog == Obj(<<10, 4, 4, 2>>, "dog", 0)

AttentionObjects ==
    { List(<<PersonA>>), List(<<PersonA, DogB>>), List(<<DogB, PersonA>>),
      List(<<ChairC, PersonA, DogB>>), List(<<ZeroPerson>>),
      List(<<ZeroPerson, ZeroDog>>), List(<<ZeroDog, ZeroPerson>>),
      List(<<ZeroPerson, PersonA>>) }

AttentionInputs ==
    { Call(o, <<16, 10>>, f, "none") :
        o \in AttentionObjects,
        f \in { NoFrame, Frame(<<>>, FALSE, SaliencyAt(12, 5)) } }

AttentionCalculate ==
    /\ pc = "engine"
    /\ ncalls < MaxCalls
    /\ \E inp \in AttentionInputs : DoCalculate(inp)
    /\ ncalls' = ncalls + 1
    /\ UNCHANGED <<tools, repeats, pipeline>>

AttentionNext == AttentionCalculate

AttentionSpec == Init /\ [][AttentionNext]_vars

\* the place in the list of the object of highest importance, the first of
\* them if several share it
Highest(scored) ==
    CHOOSE i \in 1..Len(scored) :
        /\ \A j \in 1..Len(scored) : scored[j].importance <= scored[i].importance
        /\ \A j \in 1..(i - 1) : scored[j].importance < scored[i].importance

\* the attention point the claim gives for the scored objects
ClaimedCenter(scored) ==
    IF weighted_center /\ TotalWeight(scored) # 0
    THEN Point(Average(WeightedSum2X(scored), TotalWeight(scored)),
               Average(WeightedSum2Y(scored), TotalWeight(scored)))
    ELSE BoxCenter(scored[Highest(scored)].box)

\* the point stored by a call whose attention point before blending is point
StoredFor(point, call, before) ==
    LET n == Len(Objects(call))
        saliency_center == SaliencyCenter(call, Objects(call))
        blended == IF saliency_center.kind = "point" /\ blend_saliency /\ n <= 2
                   THEN BlendSaliency(point, saliency_center) ELSE point
    IN  IF before.set THEN BlendHistory(before, blended) ELSE blended

Synthesized(l) ==
    l.path \in { "computed", "computed_fallback" } /\ l.inp.fault = "none"

\* the attention point of the call itself, from its objects and saliency
RawPoint(inp) ==
    With(Objects(inp),
         LAMBDA objects :
             With(SortByImportance(ScoreAll(objects, inp.frame_width,
                                            inp.frame_height)),
                  LAMBDA sorted_objects :
                      CurrentPoint(inp, sorted_objects,
                                   SaliencyCenter(inp, objects))))

\* previous * history_weight + current * (1 - history_weight)
HistoryMean(previous, current) ==
    Trunc(previous * history_weight[1]
            + current * (history_weight[2] - history_weight[1]),
          history_weight[2])

ClaimedPoint(previous, current) ==
    IF previous.set
    THEN Point(HistoryMean(previous.x, current.x),
               HistoryMean(previous.y, current.y))
    ELSE current

\* C21: on every call that has a signal, if a previous attention point
\* exists the point used for the crop is previous * history_weight +
\* current * (1 - history_weight), and this blended point is stored as the
\* new previous attention point; when none exists the raw current point is
\* used and stored.
C21_HistoryBlendUsedAndStored ==
    [][Synthesized(last') =>
          LET claimed == ClaimedPoint(prev_weighted_center, RawPoint(last'.inp))
          IN  /\ prev_weighted_center' = claimed
              /\ last'.ret = ComputeAt(last'.inp, claimed).ret]_vars

\* a second call whose stored point lies strictly between the previous point
\* and its own
C21_PointBlended ==
    /\ Called
    /\ Synthesized(last)
    /\ last.before.pwc.set
    /\ prev_weighted_center.x # last.before.pwc.x
    /\ prev_weighted_center.x # RawPoint(last.inp).x

\* each field as previous * history_weight + current * (1 - history_weight)
ClaimedSmooth(previous, current) ==
    IF previous # None
    THEN [i \in 1..4 |-> HistoryMean(previous[i], current[i])]
    ELSE current

\* the smoothed window, or the centered crop when it fails validation
ClaimedWindow(previous, current, frame_width, frame_height) ==
    LET smooth == ClaimedSmooth(previous, current)
    IN  IF ValidateCropWindow(smooth, frame_width, frame_height)
        THEN smooth
        ELSE GetCenterCrop(frame_width, frame_height)

ResultsBelow(i) == { j \in WithResult(keyframe_results) : j < i }

ResultsAbove(i) == { j \in WithResult(keyframe_results) : j > i }

\* the window of frame i between its nearest keyframes that have a result
BetweenResults(i) ==
    LET prev_frame == SetMax(ResultsBelow(i))
        next_frame == SetMin(ResultsAbove(i))
    IN  InterpCrop(keyframe_results[prev_frame], keyframe_results[next_frame],
                   i - prev_frame, next_frame - prev_frame)

\* C23: for each frame index without a computed window, the interpolator
\* takes as prev and next the nearest lower and higher keyframe indices that
\* have a computed result; a keyframe whose computation produced no window
\* is skipped over, not used as a neighbour.
C23_NeighboursHaveResults ==
    (Interpolation /\ Cardinality(WithResult(keyframe_results)) > 1) =>
        \A i \in 0..(total_frames - 1) :
            (/\ keyframe_results[i] = None
             /\ ResultsBelow(i) # {}
             /\ ResultsAbove(i) # {})
                => crop_windows[i] = BetweenResults(i)

\* C24: if fewer than two keyframes produced a window, no interpolation or
\* edge extension takes place, and every frame index without a computed
\* window is filled with the centered fallback crop of the target ratio.
C24_FewResultsOnlyFallback ==
    (Interpolation /\ Cardinality(WithResult(keyframe_results)) < 2) =>
        \A i \in 0..(total_frames - 1) :
            crop_windows[i] =
                IF keyframe_results[i] # None THEN keyframe_results[i]
                ELSE IF pc = "fill" THEN None
                ELSE FillCrop

\* the video is done; only its last keyframe has a window, which is not the
\* fallback crop, and a later frame holds the fallback crop
C24_FrameAfterOnlyResult ==
    /\ pc = "done"
    /\ \E j \in Keyframes :
           /\ WithResult(keyframe_results) = {j}
           /\ j > 0
           /\ keyframe_results[j] # FillCrop
           /\ j + 1 < total_frames
           /\ crop_windows[j + 1] = FillCrop

(***************************************************************************)
(* Phase 1: the tasks of the worker pool (MainSpec).                       *)
(***************************************************************************)
\* the map a run of the first n submitted tasks one after the other, in
\* keyframe order, leaves
RECURSIVE SequentialRun(_)
SequentialRun(n) ==
    IF n = 0 THEN <<>>
    ELSE (futures[n].frame_idx :> ProcessKeyframe(futures[n].frame))
             @@ SequentialRun(n - 1)

Done == { f \in 1..Len(futures) : futures[f].state = "done" }

ReturnedEarly(l) ==
    l.path \in { "invalid_dims", "no_signal_prev", "no_signal_center" }

\* C26: a calculate() call that takes the invalid-frame-dimension path or
\* the no-objects-and-no-saliency path leaves both the previous crop window
\* and the previous attention point exactly as they were before the call; in
\* particular the centered crop returned on a fresh engine is not stored.
C26_EarlyReturnKeepsState ==
    [][ReturnedEarly(last') =>
          /\ prev_crop_window' = prev_crop_window
          /\ prev_weighted_center' = prev_weighted_center]_vars

\* a fresh engine returned the centered crop for a frame without objects or
\* saliency and stored nothing
C26_FreshEngineStoresNothing ==
    /\ Called
    /\ last.path = "no_signal_center"
    /\ last.before.pcw = None
    /\ ~last.before.pwc.set
    /\ last.ret = GetCenterCrop(last.inp.frame_width, last.inp.frame_height)
    /\ prev_crop_window = None
    /\ ~prev_weighted_center.set

(***************************************************************************)
(* The sizes of the windows of the dense sequence (MainSpec).              *)
(***************************************************************************)
\* C27: for a fixed target ratio and fixed positive frame dimensions, every
\* window returned by calculate(), every interpolated window and every
\* centered-fallback fill has the same width and the same height, so all
\* entries of the dense sequence match the size of the first entry, from
\* which the video writer is dimensioned.
C27_OneSizeThroughout ==
    (pc = "done" /\ width > 0 /\ height > 0) =>
        \A i \in 0..(total_frames - 1) :
            /\ crop_windows[i][3] = crop_windows[0][3]
            /\ crop_windows[i][4] = crop_windows[0][4]

(***************************************************************************)
(* _smooth_transition on its own (SmoothSpec).                             *)
(***************************************************************************)
SmoothWeights == { <<0, 1>>, <<1, 10>>, <<3, 10>>, <<1, 2>>, <<7, 10>>, <<1, 1>> }

SmoothFrame == <<16, 10>>

\* windows that are valid for the frame
SmoothWindows ==
    { c \in {0, 3, 4} \X {0, 2} \X {1, 3, 6, 12} \X {3, 6, 10} :
        ValidateCropWindow(c, SmoothFrame[1], SmoothFrame[2]) }

SmoothArgs ==
    { [fn |-> "smooth", prev_crop |-> p, current_crop |-> c] :
        p \in SmoothWindows, c \in SmoothWindows }

DoSmooth ==
    /\ args.fn = "smooth"
    /\ result.fn = "none"
    /\ result' = [fn |-> "smooth",
                  ret |-> SmoothTransition(args.prev_crop, args.current_crop)]
    /\ UNCHANGED <<args, core, output, marks>>

SmoothInit ==
    /\ \E hw \in SmoothWeights :
           InitEngine(Config(<<9, 16>>, hw, FALSE, FALSE, FALSE, FALSE))
    /\ ncalls = 0
    /\ last = NoCall
    /\ repeats = 0
    /\ NoPipeline
    /\ args \in SmoothArgs
    /\ result = [fn |-> "none"]
    /\ NoOutput
    /\ NoMarks

SmoothNext == DoSmooth

SmoothSpec == SmoothInit /\ [][SmoothNext]_vars

\* C28: for history_weight in [0, 1] and non-negative integer fields, each
\* field returned by _smooth_transition lies between the previous and the
\* current value, inclusive, so smoothing two windows that are both valid
\* for the frame yields a window valid for the frame.
C28_SmoothedBetweenAndValid ==
    result.fn = "smooth" =>
        /\ \A i \in 1..4 :
               /\ Min(args.prev_crop[i], args.current_crop[i]) <= result.ret[i]
               /\ result.ret[i] <= Max(args.prev_crop[i], args.current_crop[i])
        /\ ValidateCropWindow(result.ret, SmoothFrame[1], SmoothFrame[2])

(***************************************************************************)
(* _smooth_transition repeated toward one target rectangle (RepeatSpec):   *)
(* lines 265-278 of consecutive calls with the same current window.        *)
(***************************************************************************)
MaxSmooths == 8

\* history weights strictly between 0 and 1
RepeatWeights == { <<1, 10>>, <<3, 10>>, <<1, 2>>, <<7, 10>> }

RepeatArgs ==
    { [fn |-> "smooth_repeat", prev_crop |-> p, current_crop |-> c] :
        p \in SmoothWindows, c \in SmoothWindows }

\* the window the next _smooth_transition starts from
Smoothing == IF result.fn = "none" THEN args.prev_crop ELSE result.ret

\* crop_calculator.py:265-278: the stored window is smoothed toward the target
SmoothAgain ==
    /\ args.fn = "smooth_repeat"
    /\ (IF result.fn = "none" THEN 0 ELSE result.n) < MaxSmooths
    /\ result' = [fn |-> "smooth_repeat",
                  ret |-> SmoothTransition(Smoothing, args.current_crop),
                  n |-> (IF result.fn = "none" THEN 0 ELSE result.n) + 1]
    /\ UNCHANGED <<args, core, output, marks>>

RepeatInit ==
    /\ \E hw \in RepeatWeights :
           InitEngine(Config(<<9, 16>>, hw, FALSE, FALSE, FALSE, FALSE))
    /\ ncalls = 0
    /\ last = NoCall
    /\ repeats = 0
    /\ NoPipeline
    /\ args \in RepeatArgs
    /\ result = [fn |-> "none"]
    /\ NoOutput
    /\ NoMarks

RepeatNext == SmoothAgain

RepeatSpec == RepeatInit /\ [][RepeatNext]_vars

\* the gap d to the target satisfies d * (1 - history_weight) < 1
GapHolds(d) == d * (history_weight[2] - history_weight[1]) < history_weight[2]

\* C29: with 0 < history_weight < 1 and a constant target rectangle,
\* repeated _smooth_transition is asymmetric because it truncates: a
\* coordinate above the target decreases, never passing the target, until it
\* equals the target exactly, while a coordinate below the target never
\* reaches it: it rises while its gap d has d * (1 - history_weight) >= 1 and
\* stays forever at the first value whose gap satisfies
\* d * (1 - history_weight) < 1.
C29_TruncationAsymmetric ==
    [][\A i \in 1..4 :
          LET x == Smoothing[i]
              t == args.current_crop[i]
              y == result'.ret[i]
          IN  /\ x > t => (t <= y /\ y < x)
              /\ x < t => /\ y < t
                          /\ IF GapHolds(t - x) THEN y = x ELSE y > x]_vars

\* one coordinate came down onto the target; another rose from below and is
\* held at a gap d with d * (1 - history_weight) < 1
C29_ReachedAndHeld ==
    /\ result.fn = "smooth_repeat"
    /\ result.n = MaxSmooths
    /\ \E i, j \in 1..4 :
           /\ args.prev_crop[i] > args.current_crop[i]
           /\ result.ret[i] = args.current_crop[i]
           /\ args.prev_crop[j] < result.ret[j]
           /\ result.ret[j] < args.current_crop[j]
           /\ GapHolds(args.current_crop[j] - result.ret[j])

(***************************************************************************)
(* The two thresholds on the number of objects (Spec).                     *)
(***************************************************************************)
\* the saliency extractor finds a point in the frame of the call
FrameSaliency(inp) == inp.frame.present /\ inp.frame.saliency.kind = "point"

Sorted(inp) ==
    SortByImportance(ScoreAll(Objects(inp), inp.frame_width, inp.frame_height))

\* the point of a call with objects when the saliency point is blended in
\* with factor 0.3 for every frame that has one and fewer than 3 objects
ClaimedAttention(inp) ==
    LET from_objects == ObjectCenter(Sorted(inp))
        saliency == inp.frame.saliency
    IN  IF FrameSaliency(inp) /\ Len(Objects(inp)) < 3 /\ blend_saliency
        THEN Point(Trunc(7 * from_objects.x + 3 * saliency.x * FP, 10),
                   Trunc(7 * from_objects.y + 3 * saliency.y * FP, 10))
        ELSE from_objects

\* C30: saliency is computed only when a frame is supplied and the object
\* count (validated objects plus injected faces) is below 3; therefore
\* whenever calculate() holds a saliency point together with a non-empty
\* object list the count is at most 2, and with blend_saliency enabled the
\* blend with factor 0.3 is always applied: the thresholds '< 3' and '<= 2'
\* never disagree.
C30_ThresholdsAgree ==
    (Called /\ Synthesized(last) /\ Objects(last.inp) # <<>>) =>
        /\ SaliencyCenter(last.inp, Objects(last.inp)).kind = "point"
              => /\ last.inp.frame.present
                 /\ Len(Objects(last.inp)) <= 2
                 /\ FewObjects(Sorted(last.inp))
        /\ prev_weighted_center =
              ClaimedPoint(last.before.pwc, ClaimedAttention(last.inp))

\* blend_saliency is on, the frame has a saliency point, and a face was
\* added to one object: two objects, and the saliency point was blended in
C30_TwoObjectsBlended ==
    /\ Called
    /\ Synthesized(last)
    /\ blend_saliency
    /\ FrameSaliency(last.inp)
    /\ Len(Objects(last.inp)) = 2
    /\ Len(last.inp.objects.items) = 1
    /\ prev_weighted_center #
           ClaimedPoint(last.before.pwc, ObjectCenter(Sorted(last.inp)))

====
